---------------------------- MODULE Spec2Model ----------------------------
(***************************************************************************)
(* A model of djehuty's data-access layer (src/djehuty/web/database.py,    *)
(* class SparqlInterface): the query cache, the connectivity flag, the id  *)
(* counters and the read/write operations that use them.                   *)
(*                                                                         *)
(* The Python object and the triple store are one record, the "world":     *)
(*   cache   the CacheLayer's entries, a function <<prefix, key>> -> rows  *)
(*   up      self.sparql_is_up                                             *)
(*   ids     self.ids, the IdGenerator's counters (NoId: absent)           *)
(*   ver     the store: the number of mutations it has executed            *)
(*   recs    the store: the records inserted, [kind, id, ref]              *)
(*   env     the outcomes the store will give to the next requests         *)
(*   trace   what the running call has done so far, in order               *)
(*   outage, downLogs  bookkeeping about the requests seen (history)       *)
(*   typed, bindings   the store answers a select with the typed rows      *)
(*           `bindings` (else with one row that tells the store's version) *)
(*   zero_fill  the C library fills a year to four digits                  *)
(* Every method is an operator from a world (and arguments) to a record    *)
(* [w |-> the world after the call, ret |-> what the call returns], so a   *)
(* method that calls other methods is the composition of their operators.  *)
(* The variable `threads` holds the position and the locals of each thread *)
(* where calls are interleaved step by step (SpecConc, SpecAlloc); the     *)
(* other specifications run one call after the other and leave it alone.   *)
(***************************************************************************)
EXTENDS Integers, Sequences, FiniteSets, TLC

VARIABLES cache, sparql_is_up, ids, privileges, storeVer, storeRecs,
          trace, outage, downLogs, highWater, lastWriteVer, putBy,
          call, ret, calls, threads

vars == <<cache, sparql_is_up, ids, privileges, storeVer, storeRecs,
          trace, outage, downLogs, highWater, lastWriteVer, putBy,
          call, ret, calls, threads>>

---------------------------------------------------------------------------
(* Bounds of the model.                                                    *)

\* The number of calls made in one behaviour of Spec.
MaxCalls == 3
\* The number of calls made in one behaviour of SpecWrites.
MaxWriteCalls == 2
\* The number of calls made in one behaviour of SpecIds.
MaxIdCalls == 3
\* The number of calls made in one behaviour of SpecReads.
MaxReadCalls == 3
\* The number of calls made in one behaviour of SpecText.
MaxTextCalls == 2
\* The number of threads that call insert_article in SpecAlloc.
MaxInserters == 2
\* The number of calls made in one behaviour of SpecInserts.
MaxInsertCalls == 2
\* The number of calls made in one behaviour of SpecCategories.
MaxCategoryCalls == 2
\* The number of calls made in one behaviour of SpecAuthors.
MaxAuthorCalls == 2
\* The number of calls made in one behaviour of SpecAccounts.
MaxAccountCalls == 3
\* The number of calls made in one behaviour of SpecPrivileges.
MaxPrivilegeCalls == 4
\* The number of calls made in one behaviour of SpecConn.
MaxConnCalls == 4
\* The number of calls made in one behaviour of SpecBindings.
MaxBindingCalls == 3
\* The number of rounds of two concurrent calls in SpecFlag.
MaxRounds == 2
\* The number of calls made in one behaviour of SpecRoles.
MaxRoleCalls == 4
\* The number of calls made in one behaviour of SpecSupplied.
MaxSuppliedCalls == 2
\* The number of calls made in one behaviour of SpecOrder.
MaxOrderCalls == 1

---------------------------------------------------------------------------
(* Values.                                                                 *)

\* Python's None where a number is expected: an absent counter, an id the
\* caller did not supply, the result of __highest_id on a row without "id".
NoId == -1
\* Python's None where a string or a row list is expected.
None == "None"

\* The ways a request to the store can end (__run_query's try block).
Outcomes == {"ok", "URLError", "QueryBadFormed", "Exception"}

Max(S) == CHOOSE x \in S : \A y \in S : y <= x

---------------------------------------------------------------------------
(* The events a call leaves in the trace.                                  *)

EvRequest(name, out) == [e |-> "request", what |-> name, info |-> out]
EvLog(msg)           == [e |-> "log", what |-> msg, info |-> ""]
EvInvalidate(prefix) == [e |-> "invalidate", what |-> prefix, info |-> ""]
EvHit(prefix)        == [e |-> "hit", what |-> prefix, info |-> ""]
EvPut(prefix)        == [e |-> "put", what |-> prefix, info |-> ""]
EvNextId(key, kind)  == [e |-> "next_id", what |-> key, info |-> kind]
EvRaise(exc)         == [e |-> "raise", what |-> exc, info |-> ""]
\* A record reached the store; parent tells whether the version the record
\* refers to was in the store at that moment.
\* Records left the store: gone is the set of them.
EvDelete(kind, gone) ==
    [e |-> "delete", what |-> kind, info |-> "", gone |-> gone]
\* The store answered a select with the typed rows `bindings`.
EvRows(name, bindings) ==
    [e |-> "rows", what |-> name, info |-> "", bindings |-> bindings]
EvInsert(rec, parent) ==
    [e |-> "insert", what |-> rec.kind, info |-> "", rec |-> rec,
     parent |-> parent]

Emit(w, ev) == [w EXCEPT !.trace = Append(@, ev)]

\* A statement and what follows it: e is evaluated, once, and F continues
\* with its value (`x = e; F(x)`).
Then(e, F(_)) == CHOOSE r \in {F(x) : x \in {e}} : TRUE

---------------------------------------------------------------------------
(* djehuty.web.cache.CacheLayer.  The class is not part of the sources at  *)
(* hand; it is modelled from the specification's description of the cache: *)
(* a key derived deterministically from the text, entries grouped by a     *)
(* prefix, invalidation of all entries of one prefix.                      *)

\* "No cache key": the cache_key_string=None of __run_query.
NoKey == << >>

make_key(text) == <<"md5", text>>

IsCached(c, prefix, key) == <<prefix, key>> \in DOMAIN c

cached_value(c, prefix, key) == c[<<prefix, key>>]

cache_value(c, prefix, key, value) ==
    [x \in (DOMAIN c) \cup {<<prefix, key>>} |->
        IF x = <<prefix, key>> THEN value ELSE c[x]]

invalidate_by_prefix(c, prefix) ==
    [x \in {y \in DOMAIN c : y[1] # prefix} |-> c[x]]

Invalidate(w, prefix) ==
    Emit([w EXCEPT !.cache = invalidate_by_prefix(@, prefix)],
         EvInvalidate(prefix))

---------------------------------------------------------------------------
(* djehuty.utils.counters.IdGenerator.  Not part of the sources at hand;   *)
(* modelled from the specification: one counter per kind, keyed by the     *)
(* kind's name, absent until set; next_id increments and returns           *)
(* atomically.  An absent counter counts from 0.                           *)

\* The kinds load_state iterates over (self.ids.keys()).
Kinds == {"article", "collection", "timeline", "article_tag",
          "collection_tag", "file", "article_file", "article_category",
          "collection_article"}
\* The key insert_tag passes to next_id: the string is no f-string, so it
\* is this literal text, whatever the item_type.
TagKeyLiteral == "{item_type}_tag"
\* The keys next_id is called with that are none of the kinds above.
OtherKeys == <<TagKeyLiteral, "account_category", "reference", "funding",
               "author", "article_author", "collection_author",
               "custom_field", "private_links", "category",
               "collection_category", "account", "session">>
IdKeys == Kinds \cup {OtherKeys[i] : i \in 1..Len(OtherKeys)}
\* The order in which load_state visits the kinds.
KeyOrder == <<"article", "collection", "timeline", "article_tag",
              "collection_tag", "file", "article_file", "article_category",
              "collection_article">>

current_id(w, key) == w.ids[key]

Raised(w, key, v) ==
    [w EXCEPT !.high[key] = IF v > @ THEN v ELSE @]

set_id(w, value, key) ==
    Raised([w EXCEPT !.ids[key] = value], key, value)

\* next_id(key): [w |-> the world after, ret |-> the id].  `kind` is the
\* kind of the record the caller builds with the id (for the trace only).
next_id(w, key, kind) ==
    Then(IF w.ids[key] = NoId THEN 1 ELSE w.ids[key] + 1, LAMBDA v :
    [w   |-> Emit(Raised([w EXCEPT !.ids[key] = v], key, v),
                      EvNextId(key, kind)),
         ret |-> v])

---------------------------------------------------------------------------
(* The triple store, as far as the operations below can tell: it executes  *)
(* one query at a time.  A query is [name, text, op, kind, rec]; `text` is *)
(* what the cache is keyed by, the other fields say what the store does.   *)

Row(tag, val) == [tag |-> tag, val |-> val]

Query(name, text, op, kind, rec) ==
    [name |-> name, text |-> text, op |-> op, kind |-> kind, rec |-> rec]

NoRec == [kind |-> "", id |-> NoId, ref |-> NoId, val |-> NoId]

SelectQuery(name, text)  == Query(name, text, "select", "", NoRec)
PatchQuery(name, text)   == Query(name, text, "patch", "", NoRec)
InsertQuery(name, rec)   == Query(name, <<name, rec>>, "insert", rec.kind, rec)
\* Delete the records of `kind` whose id (byRef = FALSE) or whose reference
\* (byRef = TRUE) is `n`.
DeleteQuery(name, kind, byRef, n) ==
    Query(name, <<name, kind, n>>, IF byRef THEN "deleteRef" ELSE "deleteId",
          kind, [kind |-> kind, id |-> n, ref |-> n, val |-> NoId])

IdsOf(recs, kind) == {r.id : r \in {x \in recs : x.kind = kind}}

\* The kind of version a child record of `kind` refers to ("" for a record
\* that refers to no version).
ChildKinds ==
    {"reference", "tag", "funding", "category", "embargo", "author", "file",
     "custom_field", "private_link"}
ParentKind(kind) ==
    IF \E c \in ChildKinds : kind = "article_" \o c THEN "article"
    ELSE IF \E c \in ChildKinds \cup {"article"} : kind = "collection_" \o c
         THEN "collection"
    ELSE ""

\* The version that rec refers to is in the store.
ParentStored(recs, rec) ==
    \E r \in recs : r.kind = ParentKind(rec.kind) /\ r.id = rec.ref

\* The order index of a record: a record without one has none to sort by.
OrderIndex(r) == IF "order_index" \in DOMAIN r THEN r.order_index ELSE NoId

\* ORDER BY ASC(?order_index): l comes before m.  Between rows with the
\* same order index, or without one, the order is the store's: w.tie tells
\* which of the two it takes.
Before(w, l, m) ==
    \/ OrderIndex(l) < OrderIndex(m)
    \/ /\ OrderIndex(l) = OrderIndex(m)
       /\ IF w.tie THEN l.id > m.id ELSE l.id < m.id

\* The author (its name) that link l names, as the rows of a result.
AuthorRows(w, l) ==
    Then({r \in w.recs : r.kind = "author" /\ r.id = l.val}, LAMBDA named :
    IF named = {} THEN << >>
        ELSE <<Row("author", (CHOOSE r \in named : TRUE).val)>>)

RECURSIVE OrderedAuthors(_, _)
OrderedAuthors(w, links) ==
    IF links = {} THEN << >>
    ELSE Then(CHOOSE x \in links :
                      \A m \in links \ {x} : Before(w, x, m), LAMBDA l :
         AuthorRows(w, l) \o OrderedAuthors(w, links \ {l}))

\* The rows of a result for the account records accs: the account's id and
\* its email.
RECURSIVE AccountRows(_)
AccountRows(accs) ==
    IF accs = {} THEN << >>
    ELSE Then(CHOOSE x \in accs : \A y \in accs : x.id <= y.id, LAMBDA r :
         <<[account_id |-> r.id, email |-> r.val]>>
             \o AccountRows(accs \ {r}))

\* What the store answers to q and how q changes it: [w, rows].
StoreExec(w, q) ==
    CASE q.op = "select" ->
           [w |-> w, rows |-> IF w.typed THEN w.bindings
                              ELSE <<Row("data", w.ver)>>]
      [] q.op = "highest_id" ->
           [w |-> w,
            rows |-> IF IdsOf(w.recs, q.kind) # {}
                     THEN <<Row("id", Max(IdsOf(w.recs, q.kind)))>>
                     ELSE IF w.emptyRow THEN <<Row("unbound", 0)>>
                     ELSE << >>]
      [] q.op = "count" ->
           [w |-> w,
            rows |-> <<Row(q.rec.kind,
                           Cardinality({r \in w.recs : r.kind = q.kind
                                                       /\ r.ref = q.rec.ref}))>>]
      [] q.op = "find" ->
           [w |-> w,
            rows |-> IF \E r \in w.recs : r.kind = q.kind /\ r.ref = q.rec.ref
                     THEN <<Row(q.rec.kind,
                                Max({r.id : r \in {x \in w.recs :
                                         x.kind = q.kind /\ x.ref = q.rec.ref}}))>>
                     ELSE << >>]
      [] q.op = "authors" ->
           [w |-> w,
            rows |-> OrderedAuthors(w, {r \in w.recs : r.kind = q.kind
                                                       /\ r.ref = q.rec.ref})]
      [] q.op = "account_by_id" ->
           [w |-> w,
            rows |-> AccountRows({r \in w.recs : r.kind = "account"
                                                 /\ r.id = q.rec.id})]
      [] q.op = "account_by_session_token" ->
           [w |-> w,
            rows |-> AccountRows({r \in w.recs :
                        /\ r.kind = "account"
                        /\ \E x \in w.recs : /\ x.kind = "session"
                                             /\ x.ref = r.id
                                             /\ x.val = q.rec.val})]
      [] q.op = "insert" ->
           [w |-> [w EXCEPT !.recs = @ \cup {q.rec}, !.ver = @ + 1],
            rows |-> <<Row("status", w.ver + 1)>>]
      [] q.op = "deleteId" ->
           [w |-> [w EXCEPT !.recs = {r \in @ : ~(r.kind = q.kind /\ r.id = q.rec.id)},
                            !.ver = @ + 1],
            rows |-> <<Row("status", w.ver + 1)>>]
      [] q.op = "deleteRef" ->
           [w |-> [w EXCEPT !.recs = {r \in @ : ~(r.kind = q.kind /\ r.ref = q.rec.ref)},
                            !.ver = @ + 1],
            rows |-> <<Row("status", w.ver + 1)>>]
      [] OTHER ->
           [w |-> [w EXCEPT !.ver = @ + 1],
            rows |-> <<Row("status", w.ver + 1)>>]

---------------------------------------------------------------------------
(* SparqlInterface.__normalize_binding: the coercion of the values of a    *)
(* row.  A text that is taken apart (a timestamp, a number) is a sequence  *)
(* of characters.                                                          *)

Digits == <<"0", "1", "2", "3", "4", "5", "6", "7", "8", "9">>
IsDigit(ch) == \E i \in 1..Len(Digits) : Digits[i] = ch
DigitValue(ch) == (CHOOSE i \in 1..Len(Digits) : Digits[i] = ch) - 1
AllDigits(s) == s # << >> /\ \A i \in 1..Len(s) : IsDigit(s[i])

\* int(): the number that the digits s write.
RECURSIVE Number(_)
Number(s) ==
    IF s = << >> THEN 0
    ELSE 10 * Number(SubSeq(s, 1, Len(s) - 1)) + DigitValue(s[Len(s)])

\* The digits that write n, without leading zeros.
RECURSIVE Decimal(_)
Decimal(n) ==
    IF n < 10 THEN <<Digits[n + 1]>>
    ELSE Decimal(n \div 10) \o <<Digits[(n % 10) + 1]>>

\* n written with at least `width` digits, filled with zeros.
RECURSIVE ZeroFilled(_, _)
ZeroFilled(n, width) ==
    IF Len(Decimal(n)) >= width THEN Decimal(n)
    ELSE <<"0">> \o ZeroFilled(n, width - 1)

\* What datetime.strptime's directives accept: %Y four digits, the others
\* one or two digits within the range of the directive.
DirectiveAccepts(d, s) ==
    /\ AllDigits(s)
    /\ CASE d = "Y" -> Len(s) = 4
         [] d = "m" -> Len(s) \in 1..2 /\ Number(s) \in 1..12
         [] d = "d" -> Len(s) \in 1..2 /\ Number(s) \in 1..31
         [] d = "H" -> Len(s) \in 1..2 /\ Number(s) \in 0..23
         [] d = "M" -> Len(s) \in 1..2 /\ Number(s) \in 0..59
         [] OTHER   -> Len(s) \in 1..2 /\ Number(s) \in 0..61

\* The text of the five fields after the year, for field lengths l, and
\* the separators before them.
FieldStart(l, k) ==
    IF k = 1 THEN 6 ELSE 6 + l[1] + 1
       + (IF k > 2 THEN l[2] + 1 ELSE 0) + (IF k > 3 THEN l[3] + 1 ELSE 0)
       + (IF k > 4 THEN l[4] + 1 ELSE 0)
FieldText(tv, l, k) == SubSeq(tv, FieldStart(l, k), FieldStart(l, k) + l[k] - 1)
Separators == <<"-", "-", "T", ":", ":">>
Directives == <<"m", "d", "H", "M", "S">>
\* The format is matched without regard to case: "t" is taken for "T".
SeparatorMatches(ch, k) == ch = Separators[k] \/ (k = 3 /\ ch = "t")

\* The field lengths with which tv matches "%Y-%m-%dT%H:%M:%S" from its
\* first to its last character.
Matching(tv) ==
    {l \in [1..5 -> 1..2] :
        /\ Len(tv) = FieldStart(l, 5) + l[5] - 1
        /\ DirectiveAccepts("Y", SubSeq(tv, 1, 4))
        /\ \A k \in 1..5 :
              /\ SeparatorMatches(tv[FieldStart(l, k) - 1], k)
              /\ DirectiveAccepts(Directives[k], FieldText(tv, l, k))}

\* The number of days of a month (datetime's check of the day).
IsLeap(y) == y % 4 = 0 /\ (y % 100 # 0 \/ y % 400 = 0)
DaysIn(y, m) ==
    IF m = 2 THEN (IF IsLeap(y) THEN 29 ELSE 28)
    ELSE IF m \in {4, 6, 9, 11} THEN 30 ELSE 31

\* Line 87: datetime.strptime(time_value, "%Y-%m-%dT%H:%M:%S").  The text
\* must match the format and name a moment that datetime can hold; raised
\* tells that it raised ValueError.
strptime(tv) ==
    IF Matching(tv) = {} THEN [raised |-> TRUE, at |-> << >>]
    ELSE Then(CHOOSE l \in Matching(tv) : TRUE, LAMBDA l :
         Then(<<Number(SubSeq(tv, 1, 4))>>
                  \o [k \in 1..5 |-> Number(FieldText(tv, l, k))], LAMBDA at :
         IF at[1] >= 1 /\ at[3] <= DaysIn(at[1], at[2]) /\ at[6] <= 59
             THEN [raised |-> FALSE, at |-> at]
             ELSE [raised |-> TRUE, at |-> << >>]))

\* Line 88: datetime.strftime(timestamp, "%Y-%m-%d %H:%M:%S").  The year is
\* written by the C library; zero_fill tells whether it fills the year to
\* four digits (glibc does not).
strftime(at, zero_fill) ==
    (IF zero_fill THEN ZeroFilled(at[1], 4) ELSE Decimal(at[1]))
    \o <<"-">> \o ZeroFilled(at[2], 2) \o <<"-">> \o ZeroFilled(at[3], 2)
    \o <<" ">> \o ZeroFilled(at[4], 2) \o <<":">> \o ZeroFilled(at[5], 2)
    \o <<":">> \o ZeroFilled(at[6], 2)

\* Lines 84-88: the value of a dateTime binding.  [raised, value]: the
\* text produced, or raised when the coercion raised an exception
\* (time_value[-1] of an empty text, strptime).
normalize_dateTime(value, zero_fill) ==
    IF value = << >> THEN [raised |-> TRUE, value |-> << >>]
    ELSE Then(IF value[Len(value)] = "Z"
                  THEN SubSeq(value, 1, Len(value) - 1)
                  ELSE value, LAMBDA time_value :
         Then(strptime(time_value), LAMBDA timestamp :
         IF timestamp.raised THEN [raised |-> TRUE, value |-> << >>]
         ELSE [raised |-> FALSE, value |-> strftime(timestamp.at, zero_fill)]))

\* int(float(value)): the digits before the point of a number written with
\* digits and at most one point; any other text raises ValueError.
PointAt(s) == {i \in 2..(Len(s) - 1) : /\ s[i] = "."
                                       /\ AllDigits(SubSeq(s, 1, i - 1))
                                       /\ AllDigits(SubSeq(s, i + 1, Len(s)))}
int_of_float(s) ==
    IF AllDigits(s) THEN [raised |-> FALSE, n |-> Number(s)]
    ELSE IF PointAt(s) # {}
    THEN [raised |-> FALSE,
          n |-> Number(SubSeq(s, 1, (CHOOSE i \in PointAt(s) : TRUE) - 1))]
    ELSE [raised |-> TRUE, n |-> 0]

\* A binding of a row as the store sends it, and a field of a row after the
\* coercion.  A coerced value carries its Python type: <<"int", n>>,
\* <<"bool", b>>, <<"str", text>>, <<"None">>, or <<"binding", b>> for a
\* binding that was left as it was.
Binding(name, type, datatype, value) ==
    [name |-> name, type |-> type, datatype |-> datatype, value |-> value]
Field(name, value) == [name |-> name, value |-> value]
Unchanged(b) == [raised |-> FALSE, item |-> Field(b.name, <<"binding", b>>)]
Coerced(b, value) == [raised |-> FALSE, item |-> Field(b.name, value)]
CoercionRaised(b) == [raised |-> TRUE, item |-> Field(b.name, <<"None">>)]

\* Lines 75-106: what record[item] becomes for one binding: [raised, item].
normalize_item(b, zero_fill) ==
    CASE b.type = "typed-literal" /\ b.datatype \in {"integer", "decimal"} ->
           Then(int_of_float(b.value), LAMBDA n :
           IF n.raised THEN CoercionRaised(b) ELSE Coerced(b, <<"int", n.n>>))
      [] b.type = "typed-literal" /\ b.datatype = "boolean" ->
           IF AllDigits(b.value)
           THEN Coerced(b, <<"bool", Number(b.value) # 0>>)
           ELSE CoercionRaised(b)
      [] b.type = "typed-literal" /\ b.datatype = "dateTime" ->
           Then(normalize_dateTime(b.value, zero_fill), LAMBDA t :
           IF t.raised THEN CoercionRaised(b) ELSE Coerced(b, <<"str", t.value>>))
      [] b.type = "typed-literal" /\ b.datatype = "string" ->
           IF b.value = <<"N", "U", "L", "L">> THEN Coerced(b, <<"None">>)
           ELSE Coerced(b, <<"str", b.value>>)
      [] b.type = "uri" -> Coerced(b, <<"str", b.value>>)
      [] OTHER -> Unchanged(b)

\* Lines 73-107.  record is the sequence of the bindings of a row, in the
\* order of the dictionary; [raised, row].  At a binding of type "literal"
\* the function returns the binding's text in place of the row (line 102):
\* the row is then that text alone, a field without a name.
RECURSIVE normalize_binding_from(_, _, _)
normalize_binding_from(record, i, zero_fill) ==
    IF i > Len(record) THEN [raised |-> FALSE, row |-> record]
    ELSE IF record[i].type = "literal"
    THEN [raised |-> FALSE, row |-> <<Field("", <<"str", record[i].value>>)>>]
    ELSE Then(normalize_item(record[i], zero_fill), LAMBDA c :
         IF c.raised THEN [raised |-> TRUE, row |-> << >>]
         ELSE normalize_binding_from([record EXCEPT ![i] = c.item], i + 1,
                                     zero_fill))

normalize_binding(record, zero_fill) ==
    normalize_binding_from(record, 1, zero_fill)

\* Lines 131-132: list(map(self.__normalize_binding, bindings)): the rows
\* coerced one after the other; an exception raised for one of them leaves
\* the map: [raised, rows].
RECURSIVE normalize_bindings(_, _)
normalize_bindings(bindings, zero_fill) ==
    IF bindings = << >> THEN [raised |-> FALSE, rows |-> << >>]
    ELSE Then(normalize_binding(Head(bindings), zero_fill), LAMBDA first :
         IF first.raised THEN [raised |-> TRUE, rows |-> << >>]
         ELSE Then(normalize_bindings(Tail(bindings), zero_fill), LAMBDA rest :
              IF rest.raised THEN rest
              ELSE [raised |-> FALSE, rows |-> <<first.row>> \o rest.rows]))

---------------------------------------------------------------------------
(* SparqlInterface.__run_query                                             *)

\* logging.error / logging.info / logging.warning.  The number of
\* "connection down" messages of the current outage is kept (up to 2).
Log(w, msg) ==
    Emit([w EXCEPT !.downLogs = IF msg = "down" /\ @ < 2 THEN @ + 1 ELSE @],
         EvLog(msg))

\* Lines 137-139, without the assignment to the flag.
on_success_keeps_flag(w) ==
    IF ~w.up THEN Log(w, "up") ELSE w

\* Lines 137-139: a request that succeeded finds the flag down.
on_success(w) ==
    IF ~w.up THEN [Log(w, "up") EXCEPT !.up = TRUE] ELSE w

\* Lines 141-144: except URLError, without the test of the flag.
on_URLError_always_logs(w) ==
    [Log(w, "down") EXCEPT !.up = FALSE]

\* Lines 141-144: except URLError.
on_URLError(w) ==
    IF w.up THEN [Log(w, "down") EXCEPT !.up = FALSE] ELSE w

\* Lines 145-147: except SPARQLExceptions.QueryBadFormed.
on_QueryBadFormed(w) == Log(w, "badly formed")

\* Lines 148-151: except Exception.
on_Exception(w) == Log(w, "failed")

\* Lines 134-135: the result is cached when a cache key was given.
put_result(w, cache_key_string, prefix, rows) ==
    IF cache_key_string # NoKey
    THEN Emit([w EXCEPT !.cache = cache_value(@, prefix,
                                              make_key(cache_key_string), rows)],
              EvPut(prefix))
    ELSE w

\* Bookkeeping, not code: an outage starts with a connectivity failure and
\* ends with the next request that succeeds.
Outage(w, out) ==
    CASE out = "URLError" -> [w EXCEPT !.outage = TRUE]
      [] out = "ok"       -> [w EXCEPT !.outage = FALSE, !.downLogs = 0]
      [] OTHER            -> w

\* Lines 130-132: the store answers the request: [w, out, rows].  Typed
\* rows are coerced, and an exception raised by the coercion is one that
\* `except Exception` catches: `results` is still the empty list.  The rows
\* of the other queries stand for rows whose coercion does not fail.  An
\* insert or a delete that reached the store is noted in the trace.
answered(w, q) ==
    Then(StoreExec(w, q), LAMBDA ex :
    IF q.op = "select" /\ w.typed
    THEN Then(normalize_bindings(ex.rows, w.zero_fill), LAMBDA n :
         [w    |-> Emit(ex.w, EvRows(q.name, ex.rows)),
          out  |-> IF n.raised THEN "Exception" ELSE "ok",
          rows |-> n.rows])
    ELSE
    [w    |-> IF q.op = "insert"
                  THEN Emit(ex.w, EvInsert(q.rec, ParentStored(w.recs, q.rec)))
                  ELSE IF q.op \in {"deleteId", "deleteRef"}
                  THEN Emit(ex.w, EvDelete(q.kind, w.recs \ ex.w.recs))
                  ELSE ex.w,
         out  |-> "ok",
         rows |-> ex.rows])

\* request, with rows left in `results` by a request that failed.
request_keeps_rows(w, q) ==
    Then(Head(w.env), LAMBDA out :
    Then(Emit([w EXCEPT !.env = Tail(@)], EvRequest(q.name, out)), LAMBDA w1 :
    IF out = "ok"
        THEN answered(w1, q)
        ELSE [w |-> w1, out |-> out, rows |-> <<Row("data", w.ver)>>]))

\* Lines 126-130: the request is sent and the store answers it:
\* [w, out, rows].
request(w, q) ==
    Then(Head(w.env), LAMBDA out :
    Then(Emit([w EXCEPT !.env = Tail(@)], EvRequest(q.name, out)), LAMBDA w1 :
    IF out = "ok"
        THEN answered(w1, q)
        ELSE [w |-> w1, out |-> out, rows |-> << >>]))

\* after_request, with the rows cached whatever the outcome.
after_request_caches_failures(w, out, rows, cache_key_string, prefix) ==
    CASE out = "ok" ->
           Outage(on_success(put_result(w, cache_key_string, prefix, rows)), out)
      [] out = "URLError" ->
           Outage(on_URLError(put_result(w, cache_key_string, prefix, rows)), out)
      [] out = "QueryBadFormed" ->
           Outage(on_QueryBadFormed(put_result(w, cache_key_string, prefix, rows)),
                  out)
      [] OTHER ->
           Outage(on_Exception(put_result(w, cache_key_string, prefix, rows)), out)

\* Lines 134-153: what follows the request, by its outcome.
after_request(w, out, rows, cache_key_string, prefix) ==
    CASE out = "ok" ->
           Outage(on_success(put_result(w, cache_key_string, prefix, rows)), out)
      [] out = "URLError"       -> Outage(on_URLError(w), out)
      [] out = "QueryBadFormed" -> Outage(on_QueryBadFormed(w), out)
      [] OTHER                  -> Outage(on_Exception(w), out)

\* send_query, with a request that failed sent once more.
send_query_again(w, q, cache_key_string, prefix) ==
    Then(request(w, q), LAMBDA first :
    Then(IF first.out = "ok" THEN first ELSE request(first.w, q), LAMBDA rq :
    [w   |-> after_request(rq.w, rq.out, rq.rows, cache_key_string, prefix),
         ret |-> rq.rows]))

\* Lines 126-153: the request and what follows it.
send_query(w, q, cache_key_string, prefix) ==
    Then(request(w, q), LAMBDA rq :
    [w   |-> after_request(rq.w, rq.out, rq.rows, cache_key_string, prefix),
         ret |-> rq.rows])

\* Lines 117-153.
run_query(w, q, cache_key_string, prefix) ==
    IF cache_key_string # NoKey
       /\ IsCached(w.cache, prefix, make_key(cache_key_string))
    THEN [w   |-> Emit(w, EvHit(prefix)),
          ret |-> cached_value(w.cache, prefix, make_key(cache_key_string))]
    ELSE send_query(w, q, cache_key_string, prefix)

\* Python's truth value of a row list.
Truthy(rows) == Len(rows) > 0

---------------------------------------------------------------------------
(* djehuty.utils.rdf: the filter builders.  Not part of the sources at     *)
(* hand; modelled from the specification's Filter Builder contract: an     *)
(* absent value gives the empty fragment, a value gives one fragment that  *)
(* binds the field to it.  Query text is a sequence of strings.            *)

uuid_to_uri(uuid, kind) ==
    IF uuid = None THEN None ELSE kind \o ":" \o uuid

\* A text with a quote character in it, and the same text with the quote
\* neutralised.
Quoted == "a\"b"
Escaped == "a\\\"b"

\* The escaping of the filter builder: quote characters are neutralised,
\* a text without them is left as it is.
escape_quotes(value) == IF value = Quoted THEN Escaped ELSE value

sparql_filter(name, value, escape, is_uri) ==
    IF value = None THEN << >>
    ELSE <<"FILTER", name,
           IF is_uri THEN "<" \o value \o ">"
           ELSE IF escape THEN escape_quotes(value) ELSE value>>

sparql_in_filter(name, values, negate) ==
    IF values = None THEN << >>
    ELSE <<IF negate THEN "FILTER NOT IN" ELSE "FILTER IN", name, values>>

sparql_bound_filter(name) == <<"FILTER BOUND", name>>

sparql_suffix(order, order_direction, limit, offset) ==
    <<"ORDER", order, order_direction, "LIMIT", limit, "OFFSET", offset>>

\* __query_from_template: the template's name, the state graph and the
\* parameters, in the order given.
query_from_template(name, args) == <<name, "state_graph">> \o args

---------------------------------------------------------------------------
(* Read operations.                                                        *)

\* The arguments of datasets() at their defaults.
DatasetsDefaults ==
    [account_id |-> None, categories |-> None, collection_uri |-> None,
     container_uuid |-> None, dataset_id |-> None, dataset_uuid |-> None,
     doi |-> None, exclude_ids |-> None, groups |-> None, handle |-> None,
     institution |-> None, is_latest |-> "False", item_type |-> None,
     limit |-> None, modified_since |-> None, offset |-> None,
     order |-> None, order_direction |-> None, published_since |-> None,
     resource_doi |-> None, return_count |-> "False", search_for |-> None,
     version |-> None, is_published |-> "True"]

\* Lines 217-227: the filters of datasets().  The first two assignments
\* are overwritten by the third ("filters  =", not "filters +=").
datasets_filters(a) ==
    Then(sparql_filter("container_uri",
                            uuid_to_uri(a.container_uuid, "container"), FALSE, TRUE), LAMBDA f1 :
    Then(sparql_filter("article",
                            uuid_to_uri(a.dataset_uuid, "article"), FALSE, TRUE), LAMBDA f2 :
    Then(sparql_filter("institution_id", a.institution, FALSE, FALSE), LAMBDA f3 :
    f3
        \o sparql_filter("defined_type", a.item_type, FALSE, FALSE)
        \o sparql_filter("article_id", a.dataset_id, FALSE, FALSE)
        \o sparql_filter("version", a.version, FALSE, FALSE)
        \o sparql_filter("resource_doi", a.resource_doi, TRUE, FALSE)
        \o sparql_filter("doi", a.doi, TRUE, FALSE)
        \o sparql_filter("handle", a.handle, TRUE, FALSE)
        \o sparql_in_filter("group_id", a.groups, FALSE)
        \o sparql_in_filter("article_id", a.exclude_ids, TRUE))))

\* Lines 229-266: the query text of datasets().
datasets_query(a) ==
    Then(datasets_filters(a)
            \o (IF a.categories # None
                THEN <<"FILTER category IN", a.categories>> ELSE << >>)
            \o (IF a.search_for # None
                THEN <<"FILTER CONTAINS", a.search_for>> ELSE << >>)
            \o (IF a.published_since # None
                THEN sparql_bound_filter("published_date")
                     \o <<"FILTER published_date >", a.published_since>>
                ELSE << >>)
            \o (IF a.modified_since # None
                THEN sparql_bound_filter("modified_date")
                     \o <<"FILTER modified_date >", a.modified_since>>
                ELSE << >>), LAMBDA filters :
    Then(IF a.limit = None THEN "10" ELSE a.limit, LAMBDA limit :
    query_from_template("datasets",
            <<a.categories, a.collection_uri, a.account_id, a.is_latest,
              a.is_published>> \o filters \o <<a.return_count>>)
        \o (IF a.return_count = "False"
            THEN sparql_suffix(a.order, a.order_direction, limit, a.offset)
            ELSE << >>)))

\* Lines 208-266.
datasets(w, a) ==
    Then(datasets_query(a), LAMBDA query :
    run_query(w, SelectQuery("datasets", query), query, "datasets"))

\* Lines 194-206: an uncached read.
dataset_versions(w, article_id) ==
    Then(sparql_filter("article_id", article_id, FALSE, FALSE)
                   \o sparql_filter("container_uri", None, FALSE, TRUE), LAMBDA filters :
    Then(query_from_template("dataset_versions", filters)
                   \o sparql_suffix("version", "desc", "1000", "0"), LAMBDA query :
    run_query(w, SelectQuery("dataset_versions", query), NoKey, None)))

---------------------------------------------------------------------------
(* Write operations.  A record of the store is [kind, id, ref]: for an     *)
(* article or collection version, id is the version id and ref the logical *)
(* id; for a child record, ref is the version id it refers to.             *)

Rec(kind, id, ref) == [kind |-> kind, id |-> id, ref |-> ref, val |-> NoId]

\* A child record that carries a value besides its reference: the category
\* of a category link, the author of an author link.
RecV(kind, id, ref, val) == [kind |-> kind, id |-> id, ref |-> ref, val |-> val]

\* f"{item_type}_tag", f"{item_type}_category": the kind named by a prefix.
KindOf(item_type, what) == item_type \o "_" \o what

\* f"{article_version_id}_article" and the like.
PrefixOf(id, what) == ToString(id) \o "_" \o what

\* Lines 1126-1149.
insert_timeline(w) ==
    Then(next_id(w, "timeline", "timeline"), LAMBDA n :
    Then(run_query(n.w, InsertQuery("insert_timeline",
                                        Rec("timeline", n.ret, NoId)),
                       NoKey, None), LAMBDA r :
    [w |-> r.w, ret |-> IF Truthy(r.ret) THEN n.ret ELSE NoId]))

\* Lines 1322-1340.  The counter key is the literal "{item_type}_tag".
insert_tag(w, tag, item_id, item_type) ==
    Then(next_id(w, TagKeyLiteral, KindOf(item_type, "tag")), LAMBDA n :
    Then(run_query(n.w, InsertQuery("insert_tag",
                                        Rec(KindOf(item_type, "tag"), n.ret, item_id)),
                       NoKey, None), LAMBDA r :
    [w |-> r.w, ret |-> IF Truthy(r.ret) THEN n.ret ELSE NoId]))

\* Lines 1151-1174.  category is [id].
insert_category(w, category) ==
    Then(IF category.id = NoId THEN next_id(w, "category", "category")
             ELSE [w |-> w, ret |-> category.id], LAMBDA n :
    Then(run_query(n.w, InsertQuery("insert_category",
                                        Rec("category", n.ret, NoId)),
                       NoKey, None), LAMBDA r :
    [w |-> r.w, ret |-> IF Truthy(r.ret) THEN n.ret ELSE NoId]))

\* Lines 1176-1193 (insert_article_category, insert_collection_category).
insert_item_category(w, item_id, category_id, item_type) ==
    Then(next_id(w, KindOf(item_type, "category"), KindOf(item_type, "category")), LAMBDA n :
    Then(run_query(n.w, InsertQuery("insert_item_category",
                                        RecV(KindOf(item_type, "category"), n.ret,
                                             item_id, category_id)),
                       NoKey, None), LAMBDA r :
    [w |-> r.w, ret |-> IF Truthy(r.ret) THEN n.ret ELSE NoId]))

\* delete_item_categories with a query that deletes nothing.
delete_item_categories_nothing(w, item_id, account_id, item_type) ==
    run_query(w, PatchQuery("delete_item_categories",
                            <<"delete_item_categories", item_id>>),
              NoKey, None)

\* Lines 1268-1281 (delete_article_categories, delete_collection_categories).
delete_item_categories(w, item_id, account_id, item_type) ==
    run_query(w, DeleteQuery("delete_item_categories",
                             KindOf(item_type, "category"), TRUE, item_id),
              NoKey, None)

RECURSIVE insert_item_categories(_, _, _, _)
insert_item_categories(w, categories, item_id, item_type) ==
    IF categories = << >> THEN w
    ELSE insert_item_categories(
             insert_item_category(w, item_id, Head(categories), item_type).w,
             Tail(categories), item_id, item_type)

\* Lines 1342-1359.  The counter is "reference" for both item types.
insert_reference(w, url, item_id, item_type) ==
    Then(next_id(w, "reference", "reference"), LAMBDA n :
    Then(run_query(n.w, InsertQuery("insert_reference",
                                        Rec(KindOf(item_type, "reference"), n.ret,
                                            item_id)),
                       NoKey, None), LAMBDA r :
    [w |-> r.w, ret |-> IF Truthy(r.ret) THEN n.ret ELSE NoId]))

\* Lines 1361-1388.
insert_funding(w, fund, item_id, item_type) ==
    Then(next_id(w, "funding", "funding"), LAMBDA n :
    Then(run_query(n.w, InsertQuery("insert_funding",
                                        Rec(KindOf(item_type, "funding"), n.ret,
                                            item_id)),
                       NoKey, None), LAMBDA r :
    [w |-> r.w, ret |-> IF Truthy(r.ret) THEN n.ret ELSE NoId]))

\* Lines 1502-1519.  The id of the embargo is the caller's.
insert_embargo(w, embargo_id, article_version_id) ==
    Then(run_query(w, InsertQuery("insert_embargo",
                                      Rec("article_embargo", embargo_id,
                                          article_version_id)),
                       NoKey, None), LAMBDA r :
    [w |-> r.w, ret |-> IF Truthy(r.ret) THEN embargo_id ELSE NoId])

\* Lines 1058-1089.  author is [id, name]; the record keeps the name.
insert_author(w, author) ==
    Then(IF author.id = NoId THEN next_id(w, "author", "author")
             ELSE [w |-> w, ret |-> author.id], LAMBDA n :
    Then(run_query(n.w, InsertQuery("insert_author",
                                        RecV("author", n.ret, NoId, author.name)),
                       NoKey, None), LAMBDA r :
    [w |-> r.w, ret |-> IF Truthy(r.ret) THEN n.ret ELSE NoId]))

\* Lines 1221-1247 (insert_article_author, insert_collection_author).  The
\* link has an id, the author's id and the version's id.
insert_author_link(w, author_id, item_id, item_type) ==
    Then(next_id(w, KindOf(item_type, "author"), KindOf(item_type, "author")), LAMBDA n :
    Then(run_query(n.w, InsertQuery("insert_author_link",
                                        RecV(KindOf(item_type, "author"), n.ret,
                                             item_id, author_id)),
                       NoKey, None), LAMBDA r :
    [w |-> r.w, ret |-> IF Truthy(r.ret) THEN n.ret ELSE NoId]))

\* Lines 1521-1551.
insert_custom_field(w, field, item_id, item_type) ==
    Then(next_id(w, "custom_field", "custom_field"), LAMBDA n :
    Then(run_query(n.w, InsertQuery("insert_custom_field",
                                        Rec(KindOf(item_type, "custom_field"),
                                            n.ret, item_id)),
                       NoKey, None), LAMBDA r :
    [w |-> r.w, ret |-> IF Truthy(r.ret) THEN n.ret ELSE NoId]))

\* Lines 1472-1500.
insert_private_link(w, link, item_id, item_type) ==
    Then(IF link.id = NoId THEN next_id(w, "private_links", "private_links")
             ELSE [w |-> w, ret |-> link.id], LAMBDA n :
    Then(run_query(n.w, InsertQuery("insert_private_link",
                                        Rec(KindOf(item_type, "private_link"),
                                            n.ret, item_id)),
                       NoKey, None), LAMBDA r :
    [w |-> r.w, ret |-> IF Truthy(r.ret) THEN n.ret ELSE NoId]))

\* Lines 1249-1266.
insert_article_file(w, article_version_id, file_id) ==
    Then(next_id(w, "article_file", "article_file"), LAMBDA n :
    Then(run_query(n.w, InsertQuery("insert_article_file",
                                        Rec("article_file", n.ret, article_version_id)),
                       NoKey, None), LAMBDA r :
    [w |-> r.w, ret |-> IF Truthy(r.ret) THEN n.ret ELSE NoId]))

\* The text of update_article's query (lines 1592-1618): the fields that
\* vary here, and the modified_date, which is the time of the call.
update_article_query(a) ==
    query_from_template("update_article",
        <<a.account_id, ToString(a.article_version_id), a.has_linked_file,
          a.modified_date, a.title>>)

\* Lines 1620-1621 of update_article: the invalidations before the query.
update_article_invalidate(w, a) ==
    Invalidate(Invalidate(w, "article"),
               PrefixOf(a.article_version_id, "article"))

\* Lines 1581-1628.
update_article(w, a) ==
    Then(update_article_query(a), LAMBDA query :
    Then(update_article_invalidate(w, a), LAMBDA w1 :
    Then(run_query(w1, PatchQuery("update_article", query), query,
                        PrefixOf(a.article_version_id, "article")), LAMBDA r :
    IF Truthy(r.ret) /\ a.categories # << >>
        THEN [w |-> insert_item_categories(
                        delete_item_categories(r.w, a.article_version_id,
                                               a.account_id, "article").w,
                        a.categories, a.article_version_id, "article"),
              ret |-> r.ret]
        ELSE r)))

\* The arguments of update_article that insert_file passes (lines 1424-1426).
LinkedFileUpdate(article_version_id, account_id) ==
    [article_version_id |-> article_version_id, account_id |-> account_id,
     has_linked_file |-> "True", title |-> None, categories |-> << >>,
     modified_date |-> "now"]

\* Line 1419 of insert_file: the invalidation before the query.
insert_file_invalidate(w) == Invalidate(w, "article")

\* Lines 1390-1434.  f is [id, is_link_only].
insert_file(w, f, article_version_id, account_id) ==
    Then(IF f.id = NoId THEN next_id(w, "file", "file")
              ELSE [w |-> w, ret |-> f.id], LAMBDA n :
    Then(insert_file_invalidate(n.w), LAMBDA w1 :
    Then(run_query(w1, InsertQuery("insert_file", Rec("file", n.ret, NoId)),
                        NoKey, None), LAMBDA r :
    IF Truthy(r.ret)
        THEN IF article_version_id # NoId
             THEN Then(IF f.is_link_only
                            THEN update_article(r.w,
                                     LinkedFileUpdate(article_version_id,
                                                      account_id)).w
                            ELSE r.w, LAMBDA w2 :
                  Then(insert_article_file(w2, article_version_id, n.ret), LAMBDA l :
                  [w |-> l.w, ret |-> IF l.ret # NoId THEN n.ret ELSE NoId]))
             ELSE [w |-> r.w, ret |-> n.ret]
        ELSE [w |-> r.w, ret |-> NoId])))

RECURSIVE insert_tags(_, _, _, _)
insert_tags(w, tags, item_id, item_type) ==
    IF tags = << >> THEN w
    ELSE insert_tags(insert_tag(w, Head(tags), item_id, item_type).w,
                     Tail(tags), item_id, item_type)

RECURSIVE insert_files(_, _, _, _)
insert_files(w, files, article_version_id, account_id) ==
    IF files = << >> THEN w
    ELSE insert_files(insert_file(w, Head(files), article_version_id, account_id).w,
                      Tail(files), article_version_id, account_id)

RECURSIVE insert_references(_, _, _, _)
insert_references(w, references, item_id, item_type) ==
    IF references = << >> THEN w
    ELSE insert_references(
             insert_reference(w, Head(references), item_id, item_type).w,
             Tail(references), item_id, item_type)

RECURSIVE insert_funding_list(_, _, _, _)
insert_funding_list(w, funding_list, item_id, item_type) ==
    IF funding_list = << >> THEN w
    ELSE insert_funding_list(
             insert_funding(w, Head(funding_list), item_id, item_type).w,
             Tail(funding_list), item_id, item_type)

RECURSIVE insert_embargo_options(_, _, _)
insert_embargo_options(w, embargo_options, article_version_id) ==
    IF embargo_options = << >> THEN w
    ELSE insert_embargo_options(
             insert_embargo(w, Head(embargo_options).id, article_version_id).w,
             Tail(embargo_options), article_version_id)

\* Lines 859-871 of insert_article, 1815-1829 of insert_collection: the
\* author, then its link, in the order of the list.
RECURSIVE insert_authors(_, _, _, _)
insert_authors(w, authors_list, item_id, item_type) ==
    IF authors_list = << >> THEN w
    ELSE Then(insert_author(w, Head(authors_list)), LAMBDA au :
         insert_authors(
                 insert_author_link(au.w, au.ret, item_id, item_type).w,
                 Tail(authors_list), item_id, item_type))

RECURSIVE insert_custom_fields(_, _, _, _)
insert_custom_fields(w, custom_fields, item_id, item_type) ==
    IF custom_fields = << >> THEN w
    ELSE insert_custom_fields(
             insert_custom_field(w, Head(custom_fields), item_id, item_type).w,
             Tail(custom_fields), item_id, item_type)

RECURSIVE insert_private_links(_, _, _, _)
insert_private_links(w, private_links, item_id, item_type) ==
    IF private_links = << >> THEN w
    ELSE insert_private_links(
             insert_private_link(w, Head(private_links), item_id, item_type).w,
             Tail(private_links), item_id, item_type)

\* Lines 1805-1813 of insert_collection: the category, then its link.
RECURSIVE insert_collection_categories(_, _, _)
insert_collection_categories(w, categories, collection_version_id) ==
    IF categories = << >> THEN w
    ELSE Then(insert_category(w, Head(categories)), LAMBDA ca :
         insert_collection_categories(
                 insert_item_category(ca.w, collection_version_id, ca.ret,
                                      "collection").w,
                 Tail(categories), collection_version_id))

\* Lines 800-801 of insert_article: the version id, when none is supplied.
insert_article_version_id_unadvanced(w, a) ==
    IF a.article_version_id = NoId
    THEN [w |-> w, ret |-> IF current_id(w, "article") = NoId THEN 1
                           ELSE current_id(w, "article") + 1]
    ELSE [w |-> w, ret |-> a.article_version_id]

insert_article_version_id(w, a) ==
    IF a.article_version_id = NoId THEN next_id(w, "article", "article")
    ELSE [w |-> w, ret |-> a.article_version_id]

\* Lines 946-952 of insert_article: the parent record and what follows.
insert_article_record(w, article_version_id, article_id) ==
    Then(run_query(w, InsertQuery("insert_article",
                                      Rec("article", article_version_id, article_id)),
                       NoKey, None), LAMBDA r :
    IF Truthy(r.ret)
        THEN [w |-> Invalidate(r.w, "article"), ret |-> article_id]
        ELSE [w |-> r.w, ret |-> NoId])

\* Lines 892-906 of insert_article: the custom fields are given article_id
\* as their item_id.
insert_article_custom_fields(w, a, article_version_id, article_id) ==
    insert_custom_fields(w, a.custom_fields, article_id, "article")

\* insert_article's children, given up when the timeline was not inserted.
insert_article_children_stops(w, a, article_version_id, article_id) ==
    Then(insert_timeline(w), LAMBDA t :
    IF t.ret = NoId THEN t.w
    ELSE
    Then(insert_references(t.w, a.references, article_version_id, "article"), LAMBDA w2 :
    Then(insert_tags(w2, a.tags, article_version_id, "article"), LAMBDA w3 :
    Then(insert_funding_list(w3, a.funding_list, article_version_id, "article"), LAMBDA w4 :
    Then(insert_item_categories(w4, a.categories, article_version_id, "article"), LAMBDA w5 :
    Then(insert_embargo_options(w5, a.embargo_options, article_version_id), LAMBDA w6 :
    Then(insert_authors(w6, a.authors, article_version_id, "article"), LAMBDA w7 :
    Then(insert_files(w7, a.files, article_version_id, a.account_id), LAMBDA w8 :
    Then(insert_article_custom_fields(w8, a, article_version_id, article_id), LAMBDA w9 :
    insert_private_links(w9, a.private_links, article_version_id, "article"))))))))))

\* insert_article's children with the timeline sent after them.
insert_article_children_timeline_last(w, a, article_version_id, article_id) ==
    Then(insert_references(w, a.references, article_version_id, "article"), LAMBDA w2 :
    Then(insert_tags(w2, a.tags, article_version_id, "article"), LAMBDA w3 :
    Then(insert_funding_list(w3, a.funding_list, article_version_id, "article"), LAMBDA w4 :
    Then(insert_item_categories(w4, a.categories, article_version_id, "article"), LAMBDA w5 :
    Then(insert_embargo_options(w5, a.embargo_options, article_version_id), LAMBDA w6 :
    Then(insert_authors(w6, a.authors, article_version_id, "article"), LAMBDA w7 :
    Then(insert_files(w7, a.files, article_version_id, a.account_id), LAMBDA w8 :
    Then(insert_article_custom_fields(w8, a, article_version_id, article_id), LAMBDA w9 :
    Then(insert_private_links(w9, a.private_links, article_version_id, "article"), LAMBDA w10 :
    insert_timeline(w10).w)))))))))

\* Lines 808-916 of insert_article: the timeline and the children.
insert_article_children(w, a, article_version_id, article_id) ==
    Then(insert_timeline(w).w, LAMBDA w1 :
    Then(insert_references(w1, a.references, article_version_id, "article"), LAMBDA w2 :
    Then(insert_tags(w2, a.tags, article_version_id, "article"), LAMBDA w3 :
    Then(insert_funding_list(w3, a.funding_list, article_version_id, "article"), LAMBDA w4 :
    Then(insert_item_categories(w4, a.categories, article_version_id, "article"), LAMBDA w5 :
    Then(insert_embargo_options(w5, a.embargo_options, article_version_id), LAMBDA w6 :
    Then(insert_authors(w6, a.authors, article_version_id, "article"), LAMBDA w7 :
    Then(insert_files(w7, a.files, article_version_id, a.account_id), LAMBDA w8 :
    Then(insert_article_custom_fields(w8, a, article_version_id, article_id), LAMBDA w9 :
    insert_private_links(w9, a.private_links, article_version_id, "article"))))))))))

\* Lines 757-952.  a is [article_version_id, article_id, account_id] and
\* the lists of children.
insert_article(w, a) ==
    Then(insert_article_version_id(w, a), LAMBDA n :
    Then(n.ret, LAMBDA article_version_id :
    Then(IF a.article_id = NoId THEN article_version_id
                      ELSE a.article_id, LAMBDA article_id :
    Then(insert_article_children(n.w, a, article_version_id, article_id), LAMBDA wc :
    insert_article_record(wc, article_version_id, article_id)))))

\* Lines 1553-1565.
delete_article(w, article_id, account_id) ==
    Then(run_query(w, DeleteQuery("delete_article", "article", TRUE, article_id),
                       NoKey, None), LAMBDA r :
    [w |-> Invalidate(Invalidate(r.w, PrefixOf(article_id, "article")),
                          "article"),
         ret |-> r.ret])

\* Lines 1567-1579.
delete_article_version(w, article_version_id, account_id) ==
    Then(run_query(w, DeleteQuery("delete_article_version", "article", FALSE,
                                      article_version_id),
                       NoKey, None), LAMBDA r :
    [w |-> Invalidate(Invalidate(r.w, PrefixOf(article_version_id, "article")),
                          "article"),
         ret |-> r.ret])

\* Lines 1310-1320.
delete_file_for_article(w, article_version_id, account_id) ==
    run_query(Invalidate(w, PrefixOf(article_version_id, "article")),
              DeleteQuery("delete_files_for_article", "article_file", TRUE,
                          article_version_id),
              NoKey, None)

\* Lines 1112-1124.
delete_article_for_collection(w, collection_version_id, account_id) ==
    run_query(Invalidate(Invalidate(w, "article"), ToString(collection_version_id)),
              DeleteQuery("delete_article_for_collection", "collection_article",
                          TRUE, collection_version_id),
              NoKey, None)

\* Lines 1686-1706.
insert_collection_article(w, collection_version_id, article_version_id) ==
    IF collection_version_id = NoId \/ article_version_id = NoId
    THEN [w |-> w, ret |-> NoId]
    ELSE Then(next_id(w, "collection_article", "collection_article"), LAMBDA n :
         Then(run_query(n.w, InsertQuery("insert_collection_article",
                                             Rec("collection_article", n.ret,
                                                 collection_version_id)),
                            NoKey, None), LAMBDA r :
         IF Truthy(r.ret)
             THEN [w |-> Invalidate(r.w, "article"), ret |-> n.ret]
             ELSE [w |-> r.w, ret |-> NoId]))

\* Lines 1755-1756 of insert_collection: the version id, when none is
\* supplied, is drawn from the "article" counter.
insert_collection_version_id(w, a) ==
    IF a.collection_version_id = NoId THEN next_id(w, "article", "collection")
    ELSE [w |-> w, ret |-> a.collection_version_id]

RECURSIVE insert_collection_articles(_, _, _)
insert_collection_articles(w, articles, collection_version_id) ==
    IF articles = << >> THEN w
    ELSE insert_collection_articles(
             insert_collection_article(w, collection_version_id, Head(articles)).w,
             Tail(articles), collection_version_id)

\* Lines 1763-1848 of insert_collection: the timeline and the children.
insert_collection_children(w, a, collection_version_id) ==
    Then(insert_timeline(w).w, LAMBDA w1 :
    Then(insert_references(w1, a.references, collection_version_id,
                                "collection"), LAMBDA w2 :
    Then(insert_tags(w2, a.tags, collection_version_id, "collection"), LAMBDA w3 :
    Then(insert_funding_list(w3, a.funding_list, collection_version_id,
                                  "collection"), LAMBDA w4 :
    Then(insert_collection_categories(w4, a.categories, collection_version_id), LAMBDA w5 :
    Then(insert_collection_articles(w5, a.articles, collection_version_id), LAMBDA w6 :
    Then(insert_authors(w6, a.authors, collection_version_id, "collection"), LAMBDA w7 :
    Then(insert_custom_fields(w7, a.custom_fields, collection_version_id,
                                   "collection"), LAMBDA w8 :
    insert_private_links(w8, a.private_links, collection_version_id,
                             "collection")))))))))

\* Lines 1708-1886.  a is [collection_version_id, collection_id] and the
\* lists of children.
insert_collection(w, a) ==
    Then(insert_collection_version_id(w, a), LAMBDA n :
    Then(n.ret, LAMBDA collection_version_id :
    Then(IF a.collection_id = NoId THEN collection_version_id
                         ELSE a.collection_id, LAMBDA collection_id :
    Then(insert_collection_children(n.w, a, collection_version_id), LAMBDA w2 :
    Then(run_query(w2, InsertQuery("insert_collection",
                                        Rec("collection", collection_version_id,
                                            collection_id)),
                        NoKey, None), LAMBDA r :
    [w |-> r.w, ret |-> IF Truthy(r.ret) THEN collection_id ELSE NoId])))))

\* The text of update_collection's query (lines 1906-1923).
update_collection_query(a) ==
    query_from_template("update_collection",
        <<a.account_id, ToString(a.collection_version_id), a.modified_date,
          a.title>>)

\* Lines 1898-1939.  The lists of categories and articles are empty.
update_collection(w, a) ==
    Then(update_collection_query(a), LAMBDA query :
    Then(Invalidate(Invalidate(w, "collection"),
                         PrefixOf(a.collection_version_id, "collection")), LAMBDA w1 :
    run_query(w1, PatchQuery("update_collection", query), query,
                  PrefixOf(a.collection_version_id, "collection"))))

---------------------------------------------------------------------------
(* Reads that embed free text in their query.                              *)

\* The arguments of authors() that the filters use, at their defaults.
AuthorsDefaults ==
    [first_name |-> None, full_name |-> None, last_name |-> None,
     job_title |-> None, orcid_id |-> None, url_name |-> None,
     search_for |-> None, item_uri |-> NoId]

\* Lines 383-399: the text of authors()'s query.  search_for is put
\* between quotes as it is.
authors_query(a) ==
    query_from_template("authors",
        <<"article", "Article",
          IF a.item_uri = NoId THEN None ELSE ToString(a.item_uri), None>>
        \o sparql_filter("job_title", a.job_title, TRUE, FALSE)
        \o sparql_filter("first_name", a.first_name, TRUE, FALSE)
        \o sparql_filter("last_name", a.last_name, TRUE, FALSE)
        \o sparql_filter("full_name", a.full_name, TRUE, FALSE)
        \o sparql_filter("orcid_id", a.orcid_id, TRUE, FALSE)
        \o sparql_filter("url_name", a.url_name, TRUE, FALSE)
        \o (IF a.search_for # None
            THEN <<"FILTER CONTAINS", a.search_for>> ELSE << >>))
    \o sparql_suffix("order_index", "asc", "10", None)

\* Lines 373-410.  With an item the store answers with the authors of the
\* item's author links, in the order of the query's suffix.
authors(w, a) ==
    run_query(w,
              IF a.item_uri = NoId THEN SelectQuery("authors", authors_query(a))
              ELSE Query("authors", authors_query(a), "authors", "article_author",
                         Rec("article_author", NoId, a.item_uri)),
              NoKey, None)

\* Lines 1989-2003: the text of group()'s query.  With starts_with the
\* name is put between quotes as it is.
group_query(a) ==
    query_from_template("group",
        (IF a.name # None
         THEN IF a.starts_with THEN <<"FILTER STRSTARTS", a.name>>
              ELSE sparql_filter("name", a.name, TRUE, FALSE)
         ELSE << >>)
        \o (IF a.association # None
            THEN sparql_filter("association", a.association, TRUE, FALSE)
            ELSE << >>))
    \o sparql_suffix(None, None, None, None)

\* Lines 1984-2011.
group(w, a) ==
    run_query(w, SelectQuery("group", group_query(a)), group_query(a), "group")

---------------------------------------------------------------------------
(* Reads that pick a value out of their result.  A call that raises has    *)
(* the exception's name as ret and a "raise" event in its trace.           *)

Raise(w, exc) == [w |-> Emit(w, EvRaise(exc)), ret |-> exc]

\* Lines 652-666.  results[0] of an empty result raises IndexError, which
\* the method does not catch; a row without "articles" gives 0.
collections_article_count(w, collection_version_id) ==
    IF collection_version_id = NoId THEN [w |-> w, ret |-> 0]
    ELSE Then(query_from_template("collection_articles_count",
                                          <<ToString(collection_version_id)>>), LAMBDA query :
         Then(run_query(w, Query("collection_articles_count", query, "count",
                                     "collection_article",
                                     [kind |-> "articles", val |-> NoId, id |-> NoId,
                                      ref |-> collection_version_id]),
                            NoKey, None), LAMBDA r :
         IF Len(r.ret) = 0 THEN Raise(r.w, "IndexError")
             ELSE [w |-> r.w,
                   ret |-> IF r.ret[1].tag = "articles" THEN r.ret[1].val ELSE 0]))

\* Lines 2075-2088.  IndexError and KeyError both give None.
account_id_by_orcid(w, orcid) ==
    Then(query_from_template("account_id_by_orcid", <<orcid>>), LAMBDA query :
    Then(run_query(w, Query("account_id_by_orcid", query, "find", "orcid",
                                [kind |-> "account_id", id |-> NoId, ref |-> orcid,
                                 val |-> NoId]),
                       NoKey, None), LAMBDA r :
    [w |-> r.w,
         ret |-> IF Len(r.ret) = 0 THEN NoId
                 ELSE IF r.ret[1].tag = "account_id" THEN r.ret[1].val
                 ELSE NoId]))

\* Lines 474-485.
derived_from(w, item_uri) ==
    Then(query_from_template("derived_from", <<"Article", item_uri>>)
                 \o sparql_suffix(None, None, "10", None), LAMBDA query :
    Then(run_query(w, SelectQuery("derived_from", query), NoKey, None), LAMBDA r :
    [w |-> r.w, ret |-> [i \in 1..Len(r.ret) |-> r.ret[i].val]]))

\* The row repository_statistics starts from (line 277).
ZeroStatistics ==
    [articles |-> 0, authors |-> 0, collections |-> 0, files |-> 0, bytes |-> 0]

RECURSIVE SumBytes(_)
SumBytes(files) ==
    IF files = << >> THEN 0 ELSE Head(files).val + SumBytes(Tail(files))

\* One of the four cached queries of repository_statistics.
statistics_query(w, name) ==
    Then(query_from_template(name, << >>), LAMBDA query :
    run_query(w, SelectQuery(name, query), query, "statistics"))

\* Lines 268-299.  The IndexError of an empty result leaves the row at
\* its zeros.
repository_statistics(w) ==
    Then(statistics_query(w, "statistics_datasets"), LAMBDA articles_rows :
    Then(statistics_query(articles_rows.w, "statistics_authors"), LAMBDA authors_rows :
    Then(statistics_query(authors_rows.w, "statistics_collections"), LAMBDA collections_rows :
    Then(statistics_query(collections_rows.w, "statistics_files"), LAMBDA files_rows :
    [w   |-> files_rows.w,
         ret |-> IF Len(articles_rows.ret) = 0 \/ Len(authors_rows.ret) = 0
                    \/ Len(collections_rows.ret) = 0
                 THEN ZeroStatistics
                 ELSE [articles    |-> articles_rows.ret[1].val,
                       authors     |-> authors_rows.ret[1].val,
                       collections |-> collections_rows.ret[1].val,
                       files       |-> Len(files_rows.ret),
                       bytes       |-> SumBytes(files_rows.ret)]]))))

---------------------------------------------------------------------------
(* Accounts.                                                               *)

\* The text of accounts()'s query (lines 2111-2113).
accounts_query(account_id) ==
    query_from_template("accounts", <<account_id>>)

\* Lines 2108-2115.
accounts(w, account_id) ==
    run_query(w, SelectQuery("accounts", accounts_query(account_id)),
              accounts_query(account_id), "accounts")

\* Lines 954-992.  a is [account_id, email]; nothing is invalidated.
insert_account(w, a) ==
    Then(IF a.account_id = NoId THEN next_id(w, "account", "account")
             ELSE [w |-> w, ret |-> a.account_id], LAMBDA n :
    Then(run_query(n.w, InsertQuery("insert_account",
                                        RecV("account", n.ret, NoId, a.email)),
                       NoKey, None), LAMBDA r :
    [w |-> r.w, ret |-> IF Truthy(r.ret) THEN n.ret ELSE NoId]))

\* Lines 2135-2161.  The token is the caller's.
insert_session(w, account_id, token) ==
    IF account_id = NoId THEN [w |-> w, ret |-> <<None, None>>]
    ELSE Then(next_id(w, "session", "session"), LAMBDA n :
         Then(run_query(n.w, InsertQuery("insert_session",
                                             RecV("session", n.ret, account_id,
                                                  token)),
                            NoKey, None), LAMBDA r :
         [w |-> r.w, ret |-> IF Truthy(r.ret) THEN <<token, ToString(n.ret)>>
                                 ELSE <<None, None>>]))

\* The keys of the dictionary self.privileges: a string and a number are
\* different keys.
StrKey(text) == <<"str", text>>
IntKey(n)    == <<"int", n>>

\* ui.py, lines 280-305.  xml_root is the sequence of the account elements
\* under <privileges>; an element without the attribute email has None for
\* it.  The entry is stored under the email.
RECURSIVE read_privilege_entries(_, _)
read_privilege_entries(w, accounts_xml) ==
    IF accounts_xml = << >> THEN w
    ELSE Then(Head(accounts_xml), LAMBDA account :
         IF account.email = None
             THEN read_privilege_entries(Log(w, "missing attribute"),
                                         Tail(accounts_xml))
             ELSE read_privilege_entries(
                      [w EXCEPT !.privileges =
                          [k \in DOMAIN @ \cup {StrKey(account.email)} |->
                              IF k = StrKey(account.email)
                              THEN [may_administer    |-> account.may_administer,
                                    may_impersonate   |-> account.may_impersonate,
                                    may_review        |-> account.may_review,
                                    may_review_quotas |-> account.may_review_quotas,
                                    orcid             |-> account.orcid]
                              ELSE @[k]]],
                      Tail(accounts_xml)))

read_privilege_configuration(w, xml_root) ==
    [w |-> read_privilege_entries(w, xml_root), ret |-> None]

\* Lines 2097-2106 and 2124-2133: the first row of the result, merged with
\* self.privileges[int(account["account_id"])].  No row: None; no such
\* key: the row as it is.
merge_privileges(w, results) ==
    IF Len(results) = 0 THEN None
    ELSE Then(results[1], LAMBDA account :
         IF IntKey(account.account_id) \in DOMAIN w.privileges
             THEN w.privileges[IntKey(account.account_id)] @@ account
             ELSE account)

\* Lines 2117-2133.
account_by_id(w, account_id) ==
    Then(run_query(w, Query("account_by_id",
                                query_from_template("account_by_id",
                                                    <<ToString(account_id)>>),
                                "account_by_id", "account",
                                Rec("account", account_id, NoId)),
                       NoKey, None), LAMBDA r :
    [w |-> r.w, ret |-> merge_privileges(r.w, r.ret)])

\* Lines 2090-2106, with `found` telling whether the value returned is a
\* row (None otherwise).
account_by_session_token_found(w, session_token) ==
    Then(run_query(w, Query("account_by_session_token",
                                query_from_template("account_by_session_token",
                                                    <<session_token>>),
                                "account_by_session_token", "account",
                                RecV("account", NoId, NoId, session_token)),
                       NoKey, None), LAMBDA r :
    [w |-> r.w, found |-> Len(r.ret) > 0, ret |-> merge_privileges(r.w, r.ret)])

\* Lines 2090-2106.
account_by_session_token(w, session_token) ==
    Then(account_by_session_token_found(w, session_token), LAMBDA a :
    [w |-> a.w, ret |-> a.ret])

\* __may_execute_role, with True for an account without the task's key.
may_execute_role_without_entry(w, session_token, task) ==
    Then(account_by_session_token_found(w, session_token), LAMBDA a :
    [w   |-> a.w,
     ret |-> IF ~a.found THEN FALSE
             ELSE IF ("may_" \o task) \in DOMAIN a.ret
                 THEN a.ret["may_" \o task]
             ELSE TRUE])

\* Lines 2206-2216: account[f"may_{task}"]; None has no items (TypeError)
\* and a row without the key raises KeyError: both end in `return False`.
may_execute_role(w, session_token, task) ==
    Then(account_by_session_token_found(w, session_token), LAMBDA a :
    [w   |-> a.w,
     ret |-> IF ~a.found THEN FALSE
             ELSE IF ("may_" \o task) \in DOMAIN a.ret
                 THEN a.ret["may_" \o task]
             ELSE FALSE])

\* Lines 2218-2220.
may_administer(w, session_token) ==
    may_execute_role(w, session_token, "administer")

\* Lines 2222-2224.
may_impersonate(w, session_token) ==
    may_execute_role(w, session_token, "impersonate")

\* Lines 2231-2234: `account is not None`.
is_logged_in(w, session_token) ==
    Then(account_by_session_token_found(w, session_token), LAMBDA a :
    [w |-> a.w, ret |-> a.found])

\* Lines 1291-1299.
delete_account_categories(w, account_id) ==
    run_query(w, DeleteQuery("delete_account_categories", "account_category",
                             TRUE, account_id),
              NoKey, None)

\* Lines 1203-1219.
insert_account_category(w, account_id, category_id) ==
    Then(next_id(w, "account_category", "account_category"), LAMBDA n :
    Then(run_query(n.w, InsertQuery("insert_account_category",
                                        Rec("account_category", n.ret, account_id)),
                       NoKey, None), LAMBDA r :
    [w |-> r.w, ret |-> IF Truthy(r.ret) THEN n.ret ELSE NoId]))

RECURSIVE insert_account_categories(_, _, _)
insert_account_categories(w, account_id, categories) ==
    IF categories = << >> THEN w
    ELSE insert_account_categories(
             insert_account_category(w, account_id, Head(categories)).w,
             account_id, Tail(categories))

\* Lines 1006-1028 of update_account: the mutation.
update_account_mutation(w, a) ==
    run_query(w, PatchQuery("update_account",
                            query_from_template("update_account",
                                <<ToString(a.account_id), a.modified_date>>)),
              NoKey, None)

\* Line 1029: `if results and categories`.
update_account_has_categories(results, a) ==
    Truthy(results) /\ Len(a.categories) > 0

\* Line 1030.
update_account_invalidate(w) == Invalidate(w, "accounts")

\* Lines 994-1035.  a is [account_id, modified_date, categories]; no
\* categories is the empty list.
update_account(w, a) ==
    Then(update_account_mutation(w, a), LAMBDA r :
    IF update_account_has_categories(r.ret, a)
        THEN [w   |-> insert_account_categories(
                          delete_account_categories(update_account_invalidate(r.w),
                                                    a.account_id).w,
                          a.account_id, a.categories),
              ret |-> r.ret]
        ELSE r)

---------------------------------------------------------------------------
(* Start-up: __init__, __highest_id and load_state.                        *)

\* conv.to_camel, for the names it is applied to.
to_camel(item_type) ==
    CASE item_type = "article"            -> "Article"
      [] item_type = "collection"         -> "Collection"
      [] item_type = "timeline"           -> "Timeline"
      [] item_type = "article_tag"        -> "ArticleTag"
      [] item_type = "collection_tag"     -> "CollectionTag"
      [] item_type = "file"               -> "File"
      [] item_type = "article_file"       -> "ArticleFile"
      [] item_type = "article_category"   -> "ArticleCategory"
      [] item_type = "collection_article" -> "CollectionArticle"
      [] item_type = "account_category"   -> "AccountCategory"
      [] OTHER                            -> "{itemType}Tag"

\* Lines 155-168: [w, ret]; ret is the highest id, 0 when the result has
\* no row (IndexError), NoId (None) when its row has no "id" (KeyError).
highest_id(w, item_type) ==
    Then(query_from_template("highest_id", <<to_camel(item_type)>>), LAMBDA query :
    Then(run_query(w, Query("highest_id", query, "highest_id", item_type,
                                NoRec),
                       NoKey, None), LAMBDA r :
    [w   |-> r.w,
         ret |-> IF Len(r.ret) = 0 THEN 0
                 ELSE IF r.ret[1].tag = "id" THEN r.ret[1].val
                 ELSE NoId]))

\* self.ids.keys(): the kinds, and every other key next_id was called with.
keys(w) ==
    KeyOrder \o SelectSeq(OtherKeys, LAMBDA k : w.ids[k] # NoId)

\* Lines 55-58, the loop over the keys from the i-th on: [w, ret]; ret is
\* "UnknownDatabaseState" when the loop raised it, None when it ended.
RECURSIVE load_state_loop(_, _, _)
load_state_loop(w, ks, i) ==
    IF i > Len(ks) THEN [w |-> w, ret |-> None]
    ELSE Then(highest_id(w, ks[i]), LAMBDA h :
         Then(set_id(h.w, h.ret, ks[i]), LAMBDA w1 :
         IF current_id(w1, ks[i]) = NoId
             THEN [w   |-> Emit(w1, EvRaise("UnknownDatabaseState")),
                   ret |-> "UnknownDatabaseState"]
             ELSE load_state_loop(w1, ks, i + 1)))

\* Lines 62-64: one message for each key.
RECURSIVE log_enumerators(_, _, _)
log_enumerators(w, ks, i) ==
    IF i > Len(ks) THEN w
    ELSE log_enumerators(Log(w, "enumerator set"), ks, i + 1)

\* Lines 48-64.  Nothing the try block calls raises EmptyDatabase, so the
\* handler of lines 59-60 and its warning have no path leading to them.
load_state(w) ==
    Then(load_state_loop(w, keys(w), 1), LAMBDA r :
    IF r.ret # None THEN r
        ELSE [w   |-> IF r.w.up THEN log_enumerators(r.w, keys(r.w), 1)
                      ELSE r.w,
              ret |-> None])

\* Lines 28-46: a new SparqlInterface has a new IdGenerator and the flag
\* up; the cache layer keeps its storage.
init(w) ==
    [w EXCEPT !.ids = [k \in IdKeys |-> NoId], !.up = TRUE]

---------------------------------------------------------------------------
(* The state machine: one action per call of a public operation.           *)

\* The world a call starts in: the variables, the outcomes `env` the store
\* will give to the call's requests, and an empty trace.
World(env) ==
    [cache |-> cache, up |-> sparql_is_up, ids |-> ids, high |-> highWater,
     ver |-> storeVer, recs |-> storeRecs, env |-> env, trace |-> << >>,
     outage |-> outage, downLogs |-> downLogs, emptyRow |-> FALSE,
     tie |-> FALSE, privileges |-> privileges,
     typed |-> FALSE, bindings |-> << >>, zero_fill |-> FALSE]

\* The outcomes of the n requests a call may send: all succeed, or exactly
\* one of them fails, in one of the ways F.
Failures == Outcomes \ {"ok"}
Unreachable == {"URLError"}
AllOk(n) == [i \in 1..n |-> "ok"]
Envs(n, F) == {AllOk(n)} \cup
              {[AllOk(n) EXCEPT ![i] = o] : i \in 1..n, o \in F}

HasEvent(tr, e, what) ==
    \E i \in 1..Len(tr) : tr[i].e = e /\ tr[i].what = what

\* The call has returned: the world after it becomes the state.
Return(r, op, args, wrote, max) ==
    /\ calls < max
    /\ calls' = calls + 1
    /\ cache' = r.w.cache
    /\ sparql_is_up' = r.w.up
    /\ ids' = r.w.ids
    /\ privileges' = r.w.privileges
    /\ highWater' = r.w.high
    /\ storeVer' = r.w.ver
    /\ storeRecs' = r.w.recs
    /\ trace' = r.w.trace
    /\ outage' = r.w.outage
    /\ downLogs' = r.w.downLogs
    /\ call' = [op |-> op, args |-> args]
    /\ ret' = r.ret
    /\ threads' = threads
    \* The store's version when the last write (of articles, or of accounts
    \* in SpecAccounts) returned success.
    /\ lastWriteVer' = IF wrote THEN r.w.ver ELSE lastWriteVer
    \* The arguments of the datasets() call that put each "datasets" entry.
    /\ putBy' = [x \in {y \in DOMAIN r.w.cache : y[1] = "datasets"} |->
                    IF op = "datasets" /\ HasEvent(r.w.trace, "put", "datasets")
                       /\ x = <<"datasets", make_key(datasets_query(args))>>
                    THEN args
                    ELSE putBy[x]]

\* The arguments the calls are made with.
DatasetsArgs ==
    {DatasetsDefaults,
     [DatasetsDefaults EXCEPT !.dataset_uuid = "u1"],
     [DatasetsDefaults EXCEPT !.container_uuid = "c1"],
     [DatasetsDefaults EXCEPT !.institution = "i1"]}
VersionIds == {1}
FileArgs == {[id |-> NoId, is_link_only |-> FALSE],
             [id |-> NoId, is_link_only |-> TRUE]}
\* insert_article without an id and without children.
InsertArticleDefaults ==
    [article_version_id |-> NoId, article_id |-> NoId, account_id |-> "acc",
     references |-> << >>, tags |-> << >>, funding_list |-> << >>,
     categories |-> << >>, embargo_options |-> << >>, authors |-> << >>,
     files |-> << >>, custom_fields |-> << >>, private_links |-> << >>]
InsertArticleArgs ==
    {[InsertArticleDefaults EXCEPT !.tags = t] : t \in {<< >>, <<"tag">>}}
UpdateArticleArgs ==
    {[article_version_id |-> v, account_id |-> "acc", has_linked_file |-> None,
      title |-> "title", categories |-> << >>, modified_date |-> "now"] :
        v \in VersionIds}
UpdateCollectionArgs ==
    {[collection_version_id |-> v, account_id |-> "acc", title |-> "title",
      modified_date |-> "now"] : v \in VersionIds}

datasets_call(F, max) ==
    /\ calls < max
    /\ \E a \in DatasetsArgs, env \in Envs(1, F) :
        \E r \in {datasets(World(env), a)} :
            Return(r, "datasets", a, FALSE, max)

dataset_versions_call(F, max) ==
    /\ calls < max
    /\ \E env \in Envs(1, F) :
        \E r \in {dataset_versions(World(env), "1")} :
            Return(r, "dataset_versions", "1", FALSE, max)

insert_article_call(F, max) ==
    /\ calls < max
    /\ \E a \in InsertArticleArgs, env \in Envs(3, F) :
        \E r \in {insert_article(World(env), a)} :
            Return(r, "insert_article", a, r.ret # NoId, max)

insert_file_call(F, max) ==
    /\ calls < max
    /\ \E f \in FileArgs, v \in VersionIds, env \in Envs(3, F) :
        \E r \in {insert_file(World(env), f, v, "acc")} :
            Return(r, "insert_file", [file |-> f, article_version_id |-> v],
                   r.ret # NoId, max)

update_article_call(F, max) ==
    /\ calls < max
    /\ \E a \in UpdateArticleArgs, env \in Envs(1, F) :
        \E r \in {update_article(World(env), a)} :
            Return(r, "update_article", a, Truthy(r.ret), max)

delete_article_call(F, max) ==
    /\ calls < max
    /\ \E v \in VersionIds, env \in Envs(1, F) :
        \E r \in {delete_article(World(env), v, "acc")} :
            Return(r, "delete_article", v, Truthy(r.ret), max)

delete_article_version_call(F, max) ==
    /\ calls < max
    /\ \E v \in VersionIds, env \in Envs(1, F) :
        \E r \in {delete_article_version(World(env), v, "acc")} :
            Return(r, "delete_article_version", v, Truthy(r.ret), max)

delete_file_for_article_call(F, max) ==
    /\ calls < max
    /\ \E v \in VersionIds, env \in Envs(1, F) :
        \E r \in {delete_file_for_article(World(env), v, "acc")} :
            Return(r, "delete_file_for_article", v, FALSE, max)

delete_article_for_collection_call(F, max) ==
    /\ calls < max
    /\ \E v \in VersionIds, env \in Envs(1, F) :
        \E r \in {delete_article_for_collection(World(env), v, "acc")} :
            Return(r, "delete_article_for_collection", v, FALSE, max)

insert_collection_article_call(F, max) ==
    /\ calls < max
    /\ \E c \in VersionIds, v \in VersionIds, env \in Envs(1, F) :
        \E r \in {insert_collection_article(World(env), c, v)} :
            Return(r, "insert_collection_article", <<c, v>>, FALSE, max)

update_collection_call(F, max) ==
    /\ calls < max
    /\ \E a \in UpdateCollectionArgs, env \in Envs(1, F) :
        \E r \in {update_collection(World(env), a)} :
            Return(r, "update_collection", a, FALSE, max)

\* How the store answers load_state's requests: every one, or none, or
\* all but one.  emptyRow: for a kind without records the store answers
\* with a row that has no "id", instead of no row (the query's template
\* decides which; both are answers __highest_id handles).
LoadStateEnvs ==
    Envs(Len(KeyOrder) + Len(OtherKeys), Unreachable)
        \cup {[i \in 1..(Len(KeyOrder) + Len(OtherKeys)) |-> "URLError"]}

load_state_call(max) ==
    /\ calls < max
    /\ \E env \in LoadStateEnvs, emptyRow \in BOOLEAN :
        \E r \in {load_state([World(env) EXCEPT !.emptyRow = emptyRow])} :
            Return(r, "load_state", [env |-> env, emptyRow |-> emptyRow],
                   FALSE, max)

\* The process is started again.
restart_call(max) ==
    Return([w |-> init(World(<< >>)), ret |-> None], "__init__", None,
           FALSE, max)

insert_tag_call(F, max) ==
    /\ calls < max
    /\ \E item_type \in {"article", "collection"}, env \in Envs(1, F) :
        \E r \in {insert_tag(World(env), "tag", 1, item_type)} :
            Return(r, "insert_tag", item_type, FALSE, max)

\* insert_collection without an id and without children.
InsertCollectionDefaults ==
    [collection_version_id |-> NoId, collection_id |-> NoId,
     references |-> << >>, tags |-> << >>, funding_list |-> << >>,
     categories |-> << >>, articles |-> << >>, authors |-> << >>,
     custom_fields |-> << >>, private_links |-> << >>]
InsertCollectionArgs == {InsertCollectionDefaults}

insert_collection_call(F, max) ==
    /\ calls < max
    /\ \E a \in InsertCollectionArgs, env \in Envs(2, F) :
        \E r \in {insert_collection(World(env), a)} :
            Return(r, "insert_collection", a, FALSE, max)

---------------------------------------------------------------------------
(* Requests served by threads of one process (ui.py, lines 613-617, with   *)
(* maximum_workers at its default of 1): the steps of different calls      *)
(* interleave.  A step is one access to the cache, to the counters or to   *)
(* the store; a __run_query without a cache key is one step.               *)

\* r1, r2 call accounts(); w calls update_account(); i1, i2, ... call
\* insert_article().  r2 is called after w's call has returned success.
Readers == {"r1", "r2"}
Inserters == {"i" \o ToString(k) : k \in 1..MaxInserters}
\* u1, u2 call update_article() or update_collection(), each with the same
\* arguments and within the same second: the rendered query texts are equal.
Updaters == {"u1", "u2"}
\* q1, q2 each run one __run_query without a cache key, round after round:
\* a round starts when both calls of the round before have returned.
Queriers == {"q1", "q2"}
Threads == Readers \cup Inserters \cup Updaters \cup Queriers \cup {"w"}

\* A thread's position and locals: rows and out are the request's answer
\* and outcome, ret what the call returned, ver the store's version after
\* the call's mutation, vid the article_version_id of an insert_article.
\* logged is what the call has logged about the connection.
Idle == [pc |-> "start", rows |-> << >>, out |-> None, ret |-> << >>,
         ver |-> 0, vid |-> NoId, logged |-> None]

AccountId == 1
UpdateAccountArgs ==
    [account_id |-> AccountId, modified_date |-> "today", categories |-> <<1>>]
ConcInsertArticleArgs == InsertArticleDefaults
ConcUpdateArticleArgs ==
    [article_version_id |-> 1, account_id |-> "acc", has_linked_file |-> None,
     title |-> "title", categories |-> << >>, modified_date |-> "now"]
ConcUpdateCollectionArgs ==
    [collection_version_id |-> 1, account_id |-> "acc", title |-> "title",
     modified_date |-> "now"]

\* The step of thread t has led to world w and to th for the thread.
Step(w, t, th) ==
    /\ cache' = w.cache
    /\ sparql_is_up' = w.up
    /\ ids' = w.ids
    /\ highWater' = w.high
    /\ storeVer' = w.ver
    /\ storeRecs' = w.recs
    /\ trace' = w.trace
    /\ outage' = w.outage
    /\ downLogs' = w.downLogs
    /\ threads' = [threads EXCEPT ![t] = th]
    /\ UNCHANGED <<privileges, lastWriteVer, putBy, call, ret, calls>>

Returned(t) == threads[t].pc = "done"

\* __run_query, lines 119-124, in accounts(): the look-up in the cache.
accounts_lookup(t) ==
    /\ t \in Readers
    /\ threads[t].pc = "start"
    /\ t = "r2" => Returned("w") /\ Truthy(threads["w"].ret)
    /\ \E key \in {make_key(accounts_query(ToString(AccountId)))} :
           \E w \in {World(<< >>)} :
           IF IsCached(cache, "accounts", key)
           THEN Step(Emit(w, EvHit("accounts")), t,
                     [threads[t] EXCEPT !.pc = "done",
                                        !.ret = cached_value(cache, "accounts", key)])
           ELSE Step(w, t, [threads[t] EXCEPT !.pc = "request"])

\* __run_query, lines 126-132, in accounts(): the request.
accounts_request(t) ==
    /\ t \in Readers
    /\ threads[t].pc = "request"
    /\ \E out \in {"ok"} \cup Unreachable :
           \E query \in {accounts_query(ToString(AccountId))} :
           \E rq \in {request(World(<<out>>), SelectQuery("accounts", query))} :
           Step(rq.w, t, [threads[t] EXCEPT !.pc = "answered",
                                                !.rows = rq.rows,
                                                !.out = rq.out])

\* __run_query, lines 134-153, in accounts(): the answer is cached and
\* returned.
accounts_return(t) ==
    /\ t \in Readers
    /\ threads[t].pc = "answered"
    /\ \E query \in {accounts_query(ToString(AccountId))} :
           \E w \in {after_request(World(<< >>), threads[t].out, threads[t].rows,
                              query, "accounts")} :
           Step(w, t, [threads[t] EXCEPT !.pc = "done", !.ret = threads[t].rows])

\* update_account, lines 1006-1029.
update_account_step_mutation(t) ==
    /\ t = "w"
    /\ threads[t].pc = "start"
    /\ \E out \in {"ok"} \cup Unreachable :
           \E r \in {update_account_mutation(World(<<out>>), UpdateAccountArgs)} :
           Step(r.w, t,
                    [threads[t] EXCEPT
                        !.pc = IF update_account_has_categories(r.ret, UpdateAccountArgs)
                               THEN "invalidate" ELSE "done",
                        !.ret = r.ret,
                        !.ver = r.w.ver])

\* update_account, line 1030.
update_account_step_invalidate(t) ==
    /\ t = "w"
    /\ threads[t].pc = "invalidate"
    /\ Step(update_account_invalidate(World(<< >>)), t,
            [threads[t] EXCEPT !.pc = "delete"])

\* update_account, line 1031.
update_account_step_delete(t) ==
    /\ t = "w"
    /\ threads[t].pc = "delete"
    /\ \E out \in {"ok"} \cup Unreachable :
           Step(delete_account_categories(World(<<out>>),
                                          UpdateAccountArgs.account_id).w,
                t, [threads[t] EXCEPT !.pc = "insert"])

\* update_account, lines 1032-1035.
update_account_step_insert(t) ==
    /\ t = "w"
    /\ threads[t].pc = "insert"
    /\ \E out \in {"ok"} \cup Unreachable :
           Step(insert_account_categories(World(<<out>>),
                                          UpdateAccountArgs.account_id,
                                          UpdateAccountArgs.categories),
                t, [threads[t] EXCEPT !.pc = "done"])

\* insert_article, lines 800-804.
insert_article_step_id(t) ==
    /\ t \in Inserters
    /\ threads[t].pc = "start"
    /\ \E n \in {insert_article_version_id(World(<< >>), ConcInsertArticleArgs)} :
           Step(n.w, t, [threads[t] EXCEPT !.pc = "timeline", !.vid = n.ret])

\* insert_article, lines 810-817.
insert_article_step_timeline(t) ==
    /\ t \in Inserters
    /\ threads[t].pc = "timeline"
    /\ \E out \in {"ok"} \cup Unreachable :
           Step(insert_timeline(World(<<out>>)).w, t,
                [threads[t] EXCEPT !.pc = "record"])

\* insert_article, lines 946-952.
insert_article_step_record(t) ==
    /\ t \in Inserters
    /\ threads[t].pc = "record"
    /\ \E out \in {"ok"} \cup Unreachable :
           \E r \in {insert_article_record(World(<<out>>), threads[t].vid,
                                          threads[t].vid)} :
           Step(r.w, t, [threads[t] EXCEPT !.pc = "done",
                                               !.ver = r.w.ver])

\* update_article, lines 1620-1621: the invalidations.
update_article_step_invalidate(t) ==
    /\ t \in Updaters
    /\ threads[t].pc = "start"
    /\ Step(update_article_invalidate(World(<< >>), ConcUpdateArticleArgs), t,
            [threads[t] EXCEPT !.pc = "article_lookup"])

\* __run_query, lines 119-124, in update_article(): the look-up in the
\* cache, under the query's own text as the key.
update_article_step_lookup(t) ==
    /\ t \in Updaters
    /\ threads[t].pc = "article_lookup"
    /\ \E prefix \in {PrefixOf(ConcUpdateArticleArgs.article_version_id, "article")} :
       \E key \in {make_key(update_article_query(ConcUpdateArticleArgs))} :
       \E w \in {World(<< >>)} :
           IF IsCached(cache, prefix, key)
           THEN Step(Emit(w, EvHit(prefix)), t,
                     [threads[t] EXCEPT !.pc = "done",
                                        !.ret = cached_value(cache, prefix, key)])
           ELSE Step(w, t, [threads[t] EXCEPT !.pc = "article_request"])

\* __run_query, lines 126-132, in update_article(): the request.
update_article_step_request(t) ==
    /\ t \in Updaters
    /\ threads[t].pc = "article_request"
    /\ \E out \in {"ok"} \cup Unreachable :
       \E query \in {update_article_query(ConcUpdateArticleArgs)} :
       \E rq \in {request(World(<<out>>), PatchQuery("update_article", query))} :
           Step(rq.w, t, [threads[t] EXCEPT !.pc = "article_answered",
                                            !.rows = rq.rows,
                                            !.out = rq.out,
                                            !.ver = rq.w.ver])

\* __run_query, lines 134-153, in update_article(): the answer is cached
\* and returned (lines 1623-1628: there are no categories to replace).
update_article_step_return(t) ==
    /\ t \in Updaters
    /\ threads[t].pc = "article_answered"
    /\ \E query \in {update_article_query(ConcUpdateArticleArgs)} :
       \E w \in {after_request(World(<< >>), threads[t].out, threads[t].rows, query,
                     PrefixOf(ConcUpdateArticleArgs.article_version_id, "article"))} :
           Step(w, t, [threads[t] EXCEPT !.pc = "done", !.ret = threads[t].rows])

\* update_collection, lines 1925-1926: the invalidations.
update_collection_step_invalidate(t) ==
    /\ t \in Updaters
    /\ threads[t].pc = "start"
    /\ Step(Invalidate(Invalidate(World(<< >>), "collection"),
                PrefixOf(ConcUpdateCollectionArgs.collection_version_id,
                         "collection")), t,
            [threads[t] EXCEPT !.pc = "collection_lookup"])

\* __run_query, lines 119-124, in update_collection().
update_collection_step_lookup(t) ==
    /\ t \in Updaters
    /\ threads[t].pc = "collection_lookup"
    /\ \E prefix \in {PrefixOf(ConcUpdateCollectionArgs.collection_version_id,
                              "collection")} :
       \E key \in {make_key(update_collection_query(ConcUpdateCollectionArgs))} :
       \E w \in {World(<< >>)} :
           IF IsCached(cache, prefix, key)
           THEN Step(Emit(w, EvHit(prefix)), t,
                     [threads[t] EXCEPT !.pc = "done",
                                        !.ret = cached_value(cache, prefix, key)])
           ELSE Step(w, t, [threads[t] EXCEPT !.pc = "collection_request"])

\* __run_query, lines 126-132, in update_collection().
update_collection_step_request(t) ==
    /\ t \in Updaters
    /\ threads[t].pc = "collection_request"
    /\ \E out \in {"ok"} \cup Unreachable :
       \E query \in {update_collection_query(ConcUpdateCollectionArgs)} :
       \E rq \in {request(World(<<out>>), PatchQuery("update_collection", query))} :
           Step(rq.w, t, [threads[t] EXCEPT !.pc = "collection_answered",
                                            !.rows = rq.rows,
                                            !.out = rq.out,
                                            !.ver = rq.w.ver])

\* __run_query, lines 134-153, in update_collection().
update_collection_step_return(t) ==
    /\ t \in Updaters
    /\ threads[t].pc = "collection_answered"
    /\ \E query \in {update_collection_query(ConcUpdateCollectionArgs)} :
       \E w \in {after_request(World(<< >>), threads[t].out, threads[t].rows, query,
                     PrefixOf(ConcUpdateCollectionArgs.collection_version_id,
                              "collection"))} :
           Step(w, t, [threads[t] EXCEPT !.pc = "done", !.ret = threads[t].rows])

\* __run_query, lines 126-132, without a cache key: the request.
run_query_step_request(t) ==
    /\ t \in Queriers
    /\ threads[t].pc = "start"
    /\ \E out \in {"ok"} \cup Unreachable :
       \E rq \in {request(World(<<out>>), SelectQuery("query", "text"))} :
           Step(rq.w, t, [threads[t] EXCEPT !.pc = "answered",
                                            !.rows = rq.rows,
                                            !.out = rq.out])

\* __run_query, line 137 (`if not self.sparql_is_up`) after a success and
\* line 142 (`if self.sparql_is_up`) in `except URLError`: the flag is read.
run_query_step_test(t) ==
    /\ t \in Queriers
    /\ threads[t].pc = "answered"
    /\ Step(World(<< >>), t,
            IF threads[t].out = "ok" /\ ~sparql_is_up
                THEN [threads[t] EXCEPT !.pc = "log up"]
            ELSE IF threads[t].out = "URLError" /\ sparql_is_up
                THEN [threads[t] EXCEPT !.pc = "log down"]
            ELSE [threads[t] EXCEPT !.pc = "done", !.ret = threads[t].rows])

\* __run_query, lines 138-139: the message that the connection is up again
\* and the assignment to the flag; line 153.
run_query_step_log_up(t) ==
    /\ t \in Queriers
    /\ threads[t].pc = "log up"
    /\ Step([Log(World(<< >>), "up") EXCEPT !.up = TRUE], t,
            [threads[t] EXCEPT !.pc = "done", !.logged = "up",
                               !.ret = threads[t].rows])

\* __run_query, lines 143-144: the message that the connection is down and
\* the assignment to the flag; line 153.
run_query_step_log_down(t) ==
    /\ t \in Queriers
    /\ threads[t].pc = "log down"
    /\ Step([Log(World(<< >>), "down") EXCEPT !.up = FALSE], t,
            [threads[t] EXCEPT !.pc = "done", !.logged = "down",
                               !.ret = threads[t].rows])

\* Both calls of the round have returned: the next two requests arrive.
run_query_next_round ==
    /\ calls < MaxRounds
    /\ \A t \in Queriers : Returned(t)
    /\ calls' = calls + 1
    /\ threads' = [t \in Threads |-> IF t \in Queriers THEN Idle ELSE threads[t]]
    /\ trace' = << >>
    /\ UNCHANGED <<cache, sparql_is_up, ids, privileges, storeVer, storeRecs,
                   outage, downLogs, highWater, lastWriteVer, putBy, call, ret>>

collections_article_count_call(F, max) ==
    /\ calls < max
    /\ \E v \in VersionIds \cup {NoId}, env \in Envs(1, F) :
        \E r \in {collections_article_count(World(env), v)} :
            Return(r, "collections_article_count", v, FALSE, max)

account_id_by_orcid_call(F, max) ==
    /\ calls < max
    /\ \E env \in Envs(1, F) :
        \E r \in {account_id_by_orcid(World(env), "orcid")} :
            Return(r, "account_id_by_orcid", "orcid", FALSE, max)

derived_from_call(F, max) ==
    /\ calls < max
    /\ \E env \in Envs(1, F) :
        \E r \in {derived_from(World(env), "uri")} :
            Return(r, "derived_from", "uri", FALSE, max)

repository_statistics_call(F, max) ==
    /\ calls < max
    /\ \E env \in Envs(4, F) :
        \E r \in {repository_statistics(World(env))} :
            Return(r, "repository_statistics", None, FALSE, max)

\* Free text as a caller may pass it: none, without and with a quote.
FreeTexts == {None, "plain", Quoted}

DatasetsTextArgs ==
    {[DatasetsDefaults EXCEPT !.search_for = t, !.doi = d] :
        t \in FreeTexts, d \in FreeTexts}
AuthorsArgs ==
    {[AuthorsDefaults EXCEPT !.search_for = t, !.full_name = n] :
        t \in FreeTexts, n \in FreeTexts}
GroupArgs ==
    [name : FreeTexts, starts_with : BOOLEAN, association : {None}]

datasets_text_call(F, max) ==
    /\ calls < max
    /\ \E a \in DatasetsTextArgs, env \in Envs(1, F) :
        \E r \in {datasets(World(env), a)} :
            Return(r, "datasets", a, FALSE, max)

authors_call(F, max) ==
    /\ calls < max
    /\ \E a \in AuthorsArgs, env \in Envs(1, F) :
        \E r \in {authors(World(env), a)} :
            Return(r, "authors", a, FALSE, max)

group_call(F, max) ==
    /\ calls < max
    /\ \E a \in GroupArgs, env \in Envs(1, F) :
        \E r \in {group(World(env), a)} :
            Return(r, "group", a, FALSE, max)

\* The state after construction (__init__, lines 28-46): an empty cache,
\* the flag up, no counter set; the store is empty.
Init ==
    /\ cache = << >>
    /\ sparql_is_up = TRUE
    /\ ids = [k \in IdKeys |-> NoId]
    /\ privileges = << >>
    /\ highWater = [k \in IdKeys |-> NoId]
    /\ storeVer = 0
    /\ storeRecs = {}
    /\ trace = << >>
    /\ outage = FALSE
    /\ downLogs = 0
    /\ lastWriteVer = 0
    /\ putBy = << >>
    /\ call = [op |-> "init", args |-> None]
    /\ ret = << >>
    /\ calls = 0
    /\ threads = [t \in Threads |-> Idle]

---------------------------------------------------------------------------
(* Spec: cached reads of datasets() and the article writes, one call after *)
(* the other; a request succeeds or the store is unreachable.              *)

Next ==
    \/ datasets_call(Unreachable, MaxCalls)
    \/ insert_article_call(Unreachable, MaxCalls)
    \/ insert_file_call(Unreachable, MaxCalls)
    \/ update_article_call(Unreachable, MaxCalls)
    \/ delete_article_call(Unreachable, MaxCalls)
    \/ delete_article_version_call(Unreachable, MaxCalls)

Spec == Init /\ [][Next]_vars

---------------------------------------------------------------------------
(* SpecWrites: the write operations that invalidate cache prefixes, with   *)
(* every way a request can fail.                                           *)

NextWrites ==
    \/ insert_article_call(Failures, MaxWriteCalls)
    \/ insert_file_call(Failures, MaxWriteCalls)
    \/ insert_collection_article_call(Failures, MaxWriteCalls)
    \/ update_article_call(Failures, MaxWriteCalls)
    \/ update_collection_call(Failures, MaxWriteCalls)
    \/ delete_article_call(Failures, MaxWriteCalls)
    \/ delete_article_version_call(Failures, MaxWriteCalls)
    \/ delete_file_for_article_call(Failures, MaxWriteCalls)
    \/ delete_article_for_collection_call(Failures, MaxWriteCalls)

SpecWrites == Init /\ [][NextWrites]_vars

---------------------------------------------------------------------------
(* SpecConn: calls of __run_query one after the other, through a cached    *)
(* read, an uncached read and a write, with every way a request can fail.  *)

NextConn ==
    \/ datasets_call(Failures, MaxConnCalls)
    \/ dataset_versions_call(Failures, MaxConnCalls)
    \/ update_article_call(Failures, MaxConnCalls)

SpecConn == Init /\ [][NextConn]_vars

---------------------------------------------------------------------------
(* SpecIds: the id allocator over inserts, load_state and restarts; a      *)
(* request succeeds or the store is unreachable.                           *)

NextIds ==
    \/ load_state_call(MaxIdCalls)
    \/ restart_call(MaxIdCalls)
    \/ insert_article_call(Unreachable, MaxIdCalls)
    \/ insert_collection_call(Unreachable, MaxIdCalls)
    \/ insert_tag_call(Unreachable, MaxIdCalls)

SpecIds == Init /\ [][NextIds]_vars

---------------------------------------------------------------------------
(* SpecConc: accounts() in two threads and update_account() in a third,    *)
(* interleaved step by step.                                               *)

NextConc ==
    \E t \in Readers \cup {"w"} :
        \/ accounts_lookup(t)
        \/ accounts_request(t)
        \/ accounts_return(t)
        \/ update_account_step_mutation(t)
        \/ update_account_step_invalidate(t)
        \/ update_account_step_delete(t)
        \/ update_account_step_insert(t)

SpecConc == Init /\ [][NextConc]_vars

---------------------------------------------------------------------------
(* SpecUpdates: update_article() or update_collection() in two threads,    *)
(* with the same arguments in the same second, interleaved step by step.   *)

NextUpdates ==
    \E t \in Updaters :
        \/ update_article_step_invalidate(t)
        \/ update_article_step_lookup(t)
        \/ update_article_step_request(t)
        \/ update_article_step_return(t)
        \/ update_collection_step_invalidate(t)
        \/ update_collection_step_lookup(t)
        \/ update_collection_step_request(t)
        \/ update_collection_step_return(t)

SpecUpdates == Init /\ [][NextUpdates]_vars

---------------------------------------------------------------------------
(* SpecFlag: __run_query in two threads at a time, interleaved step by     *)
(* step, while the store goes away and comes back.                         *)

NextFlag ==
    \/ \E t \in Queriers :
        \/ run_query_step_request(t)
        \/ run_query_step_test(t)
        \/ run_query_step_log_up(t)
        \/ run_query_step_log_down(t)
    \/ run_query_next_round

SpecFlag == Init /\ [][NextFlag]_vars

---------------------------------------------------------------------------
(* SpecAlloc: insert_article() in two threads, interleaved step by step.   *)

NextAlloc ==
    \E t \in Inserters :
        \/ insert_article_step_id(t)
        \/ insert_article_step_timeline(t)
        \/ insert_article_step_record(t)

SpecAlloc == Init /\ [][NextAlloc]_vars

---------------------------------------------------------------------------
(* SpecReads: read operations that pick a value out of their result, one   *)
(* call after the other, with every way a request can fail.                *)

NextReads ==
    \/ collections_article_count_call(Failures, MaxReadCalls)
    \/ account_id_by_orcid_call(Failures, MaxReadCalls)
    \/ derived_from_call(Failures, MaxReadCalls)
    \/ repository_statistics_call(Failures, MaxReadCalls)
    \/ insert_collection_article_call(Failures, MaxReadCalls)

SpecReads == Init /\ [][NextReads]_vars

---------------------------------------------------------------------------
(* SpecInserts: insert_article and insert_collection with children of      *)
(* every kind, with and without ids of the caller; a request succeeds or   *)
(* the store is unreachable.                                               *)

\* An id a caller supplies for a version, and one for the logical article.
SuppliedVersionId == 5
SuppliedArticleId == 9

Author(name) == [id |-> NoId, name |-> name]

\* One child of every kind, two authors and one file.
AllChildren ==
    [InsertArticleDefaults EXCEPT
        !.references = <<"url">>, !.tags = <<"tag">>,
        !.funding_list = <<"fund">>, !.categories = <<1>>,
        !.embargo_options = <<[id |-> 1]>>,
        !.authors = <<Author("a1"), Author("a2")>>,
        !.files = <<[id |-> NoId, is_link_only |-> TRUE]>>,
        !.custom_fields = <<"field">>,
        !.private_links = <<[id |-> NoId]>>]

ChildrenInsertArticleArgs ==
    {[AllChildren EXCEPT !.article_version_id = p[1], !.article_id = p[2]] :
        p \in {<<NoId, NoId>>, <<SuppliedVersionId, SuppliedArticleId>>}}

ChildrenInsertCollectionArgs ==
    {[InsertCollectionDefaults EXCEPT
        !.collection_version_id = v,
        !.references = <<"url">>, !.tags = <<"tag">>,
        !.funding_list = <<"fund">>, !.categories = <<[id |-> NoId]>>,
        !.articles = <<SuppliedVersionId>>, !.authors = <<Author("a1")>>,
        !.custom_fields = <<"field">>,
        !.private_links = <<[id |-> NoId]>>] : v \in {NoId, SuppliedVersionId}}

\* The requests of insert_article with AllChildren: the timeline, seven
\* children with one request, two authors with two, the file with three,
\* and the article.
insert_article_children_call(F, max) ==
    /\ calls < max
    /\ \E a \in ChildrenInsertArticleArgs, env \in Envs(16, F) :
        \E r \in {insert_article(World(env), a)} :
            Return(r, "insert_article", a, r.ret # NoId, max)

insert_collection_children_call(F, max) ==
    /\ calls < max
    /\ \E a \in ChildrenInsertCollectionArgs, env \in Envs(12, F) :
        \E r \in {insert_collection(World(env), a)} :
            Return(r, "insert_collection", a, FALSE, max)

NextInserts ==
    \/ insert_article_children_call(Unreachable, MaxInsertCalls)
    \/ insert_collection_children_call(Unreachable, MaxInsertCalls)

SpecInserts == Init /\ [][NextInserts]_vars

---------------------------------------------------------------------------
(* SpecOrder: insert_article and insert_collection with children of every  *)
(* kind; every request is answered, or one of them fails in one of the     *)
(* ways a request can fail.                                                *)

NextOrder ==
    \/ insert_article_children_call(Failures, MaxOrderCalls)
    \/ insert_collection_children_call(Failures, MaxOrderCalls)

SpecOrder == Init /\ [][NextOrder]_vars

---------------------------------------------------------------------------
(* SpecTime: __normalize_binding applied to a row with one dateTime        *)
(* binding.  The text of the binding is drawn in the initial state: dates  *)
(* and times that exist and that do not, with and without a trailing "Z"   *)
(* or a fraction of a second, and the empty text.                          *)

Years   == {<<"2", "0", "2", "1">>, <<"2", "0", "2", "0">>,
            <<"0", "9", "9", "9">>, <<"0", "0", "0", "0">>}
Months  == {<<"0", "5">>, <<"0", "2">>, <<"1", "3">>, <<"5">>}
Days    == {<<"0", "3">>, <<"2", "9">>, <<"3", "0">>}
Hours   == {<<"1", "0">>, <<"2", "4">>}
Minutes == {<<"1", "5">>}
Seconds == {<<"0", "0">>, <<"6", "0">>}
Suffixes == {<< >>, <<"Z">>, <<".", "5">>}

TimeValues ==
    {<< >>} \cup
    {y \o <<"-">> \o m \o <<"-">> \o d \o <<"T">> \o h \o <<":">> \o mi
       \o <<":">> \o sec \o z :
        y \in Years, m \in Months, d \in Days, h \in Hours, mi \in Minutes,
        sec \in Seconds, z \in Suffixes}

DateTimeBinding(name, tv) ==
    Binding(name, "typed-literal", "dateTime", tv)

InitTime ==
    /\ cache = << >>
    /\ sparql_is_up = TRUE
    /\ ids = [k \in IdKeys |-> NoId]
    /\ privileges = << >>
    /\ highWater = [k \in IdKeys |-> NoId]
    /\ storeVer = 0
    /\ storeRecs = {}
    /\ trace = << >>
    /\ outage = FALSE
    /\ downLogs = 0
    /\ lastWriteVer = 0
    /\ putBy = << >>
    /\ \E tv \in TimeValues, zero_fill \in BOOLEAN :
           call = [op |-> "input",
                   args |-> [record |-> <<DateTimeBinding("created", tv)>>,
                             zero_fill |-> zero_fill]]
    /\ ret = << >>
    /\ calls = 0
    /\ threads = [t \in Threads |-> Idle]

normalize_binding_call ==
    /\ call.op = "input"
    /\ call' = [op |-> "__normalize_binding", args |-> call.args]
    /\ ret' = normalize_binding(call.args.record, call.args.zero_fill)
    /\ calls' = calls + 1
    /\ UNCHANGED <<cache, sparql_is_up, ids, privileges, storeVer, storeRecs,
                   trace, outage, downLogs, highWater, lastWriteVer, putBy,
                   threads>>

NextTime == normalize_binding_call

SpecTime == InitTime /\ [][NextTime]_vars

---------------------------------------------------------------------------
(* SpecBindings: datasets() (cached) and dataset_versions() (not cached)   *)
(* on a store that answers with typed rows: a title and a timestamp, the   *)
(* timestamp in the form that the coercion accepts or in another one.  A   *)
(* request is answered or fails in one of the ways a request can fail; the *)
(* store would answer a second request, were one sent.                     *)

TitleBinding(text) == Binding("title", "typed-literal", "string", text)
GoodTime == <<"2", "0", "2", "1", "-", "0", "5", "-", "0", "3", "T",
              "1", "0", ":", "1", "5", ":", "0", "0">>
\* A timestamp with a space where the format has "T".
OtherTime == [GoodTime EXCEPT ![11] = " "]
GoodRow(text) == <<TitleBinding(text), DateTimeBinding("created", GoodTime)>>
OtherRow(text) == <<TitleBinding(text), DateTimeBinding("created", OtherTime)>>
StoredRows ==
    {<<GoodRow(<<"a">>)>>,
     <<GoodRow(<<"a">>), GoodRow(<<"b">>)>>,
     <<GoodRow(<<"a">>), OtherRow(<<"b">>)>>,
     <<OtherRow(<<"a">>)>>}

TypedWorld(env, rows, zero_fill) ==
    [World(env) EXCEPT !.typed = TRUE, !.bindings = rows,
                       !.zero_fill = zero_fill]

BindingsDatasetsArgs ==
    {DatasetsDefaults, [DatasetsDefaults EXCEPT !.institution = "i1"]}

datasets_rows_call(F, max) ==
    /\ calls < max
    /\ \E a \in BindingsDatasetsArgs, env \in Envs(2, F), rows \in StoredRows,
          zero_fill \in BOOLEAN :
        \E r \in {datasets(TypedWorld(env, rows, zero_fill), a)} :
            Return(r, "datasets", a, FALSE, max)

dataset_versions_rows_call(F, max) ==
    /\ calls < max
    /\ \E v \in VersionIds, env \in Envs(2, F), rows \in StoredRows,
          zero_fill \in BOOLEAN :
        \E r \in {dataset_versions(TypedWorld(env, rows, zero_fill),
                                   ToString(v))} :
            Return(r, "dataset_versions", ToString(v), FALSE, max)

NextBindings ==
    \/ datasets_rows_call(Failures, MaxBindingCalls)
    \/ dataset_versions_rows_call(Failures, MaxBindingCalls)

SpecBindings == Init /\ [][NextBindings]_vars

---------------------------------------------------------------------------
(* SpecSupplied: accounts, articles and files are inserted in one process, *)
(* with an id of the caller's or with one taken from the counter.          *)

\* The ids that callers supply.
SuppliedIds == {1}
SuppliedAccountArgs ==
    {[account_id |-> i, email |-> e] : i \in {NoId} \cup SuppliedIds,
                                       e \in {"a@b", "c@d"}}
SuppliedArticleArgs ==
    {[InsertArticleDefaults EXCEPT !.article_version_id = i] :
        i \in {NoId} \cup SuppliedIds}
SuppliedFileArgs ==
    {[id |-> i, is_link_only |-> FALSE] : i \in {NoId} \cup SuppliedIds}

insert_account_supplied_call(F, max) ==
    /\ calls < max
    /\ \E a \in SuppliedAccountArgs, env \in Envs(1, F) :
        \E r \in {insert_account(World(env), a)} :
            Return(r, "insert_account", a, r.ret # NoId, max)

insert_article_supplied_call(F, max) ==
    /\ calls < max
    /\ \E a \in SuppliedArticleArgs, env \in Envs(2, F) :
        \E r \in {insert_article(World(env), a)} :
            Return(r, "insert_article", a, r.ret # NoId, max)

insert_file_supplied_call(F, max) ==
    /\ calls < max
    /\ \E f \in SuppliedFileArgs, env \in Envs(1, F) :
        \E r \in {insert_file(World(env), f, NoId, "acc")} :
            Return(r, "insert_file", [file |-> f, article_version_id |-> NoId],
                   r.ret # NoId, max)

NextSupplied ==
    \/ insert_account_supplied_call(Unreachable, MaxSuppliedCalls)
    \/ insert_article_supplied_call(Unreachable, MaxSuppliedCalls)
    \/ insert_file_supplied_call(Unreachable, MaxSuppliedCalls)

SpecSupplied == Init /\ [][NextSupplied]_vars

---------------------------------------------------------------------------
(* SpecCategories: an article version gets its category links from         *)
(* insert_article and has them replaced by update_article; a request       *)
(* succeeds or the store is unreachable.                                   *)

CategoriesInsertArticleArgs ==
    {[InsertArticleDefaults EXCEPT !.article_version_id = v,
                                   !.categories = <<1, 2>>] :
        v \in {NoId, SuppliedVersionId}}

CategoriesUpdateArticleArgs ==
    {[article_version_id |-> v, account_id |-> "acc", has_linked_file |-> None,
      title |-> "title", categories |-> c, modified_date |-> "now"] :
        v \in {1, SuppliedVersionId}, c \in {<<3>>, <<1, 2>>}}

\* The requests: the timeline, two category links and the article.
insert_article_categories_call(F, max) ==
    /\ calls < max
    /\ \E a \in CategoriesInsertArticleArgs, env \in Envs(4, F) :
        \E r \in {insert_article(World(env), a)} :
            Return(r, "insert_article", a, r.ret # NoId, max)

\* The requests: the update, the delete and up to two category links.
update_article_categories_call(F, max) ==
    /\ calls < max
    /\ \E a \in CategoriesUpdateArticleArgs, env \in Envs(4, F) :
        \E r \in {update_article(World(env), a)} :
            Return(r, "update_article", a, Truthy(r.ret), max)

NextCategories ==
    \/ insert_article_categories_call(Unreachable, MaxCategoryCalls)
    \/ update_article_categories_call(Unreachable, MaxCategoryCalls)

SpecCategories == Init /\ [][NextCategories]_vars

---------------------------------------------------------------------------
(* SpecAuthors: insert_article with two authors and a file, and authors()  *)
(* for an article version; a request succeeds or the store is unreachable. *)

AuthorsInsertArticleArgs ==
    {[InsertArticleDefaults EXCEPT
        !.article_version_id = v,
        !.authors = <<Author("a1"), Author("a2")>>,
        !.files = <<[id |-> NoId, is_link_only |-> FALSE]>>] :
        v \in {NoId, SuppliedVersionId}}

AuthorsOfArgs ==
    {[AuthorsDefaults EXCEPT !.item_uri = v] : v \in {1, SuppliedVersionId}}

\* The requests: the timeline, two authors with their links, the file with
\* its link, and the article.
insert_article_authors_call(F, max) ==
    /\ calls < max
    /\ \E a \in AuthorsInsertArticleArgs, env \in Envs(8, F) :
        \E r \in {insert_article(World(env), a)} :
            Return(r, "insert_article", a, r.ret # NoId, max)

authors_of_call(F, max) ==
    /\ calls < max
    /\ \E a \in AuthorsOfArgs, env \in Envs(1, F), tie \in BOOLEAN :
        \E r \in {authors([World(env) EXCEPT !.tie = tie], a)} :
            Return(r, "authors", a, FALSE, max)

NextAuthors ==
    \/ insert_article_authors_call(Unreachable, MaxAuthorCalls)
    \/ authors_of_call(Unreachable, MaxAuthorCalls)

SpecAuthors == Init /\ [][NextAuthors]_vars

---------------------------------------------------------------------------
(* SpecAccounts: cached reads of accounts() and the account writes, one    *)
(* call after the other; a request succeeds or the store is unreachable.   *)

AccountsArgs == {None, ToString(AccountId)}

SeqUpdateAccountArgs ==
    {[account_id |-> AccountId, modified_date |-> "today", categories |-> c] :
        c \in {<< >>, <<1>>}}

InsertAccountArgs ==
    {[account_id |-> i, email |-> "a@b"] : i \in {NoId, AccountId}}

accounts_call(F, max) ==
    /\ calls < max
    /\ \E account_id \in AccountsArgs, env \in Envs(1, F) :
        \E r \in {accounts(World(env), account_id)} :
            Return(r, "accounts", account_id, FALSE, max)

\* The requests: the update, the delete and one category.
update_account_call(F, max) ==
    /\ calls < max
    /\ \E a \in SeqUpdateAccountArgs, env \in Envs(3, F) :
        \E r \in {update_account(World(env), a)} :
            Return(r, "update_account", a, Truthy(r.ret), max)

insert_account_call(F, max) ==
    /\ calls < max
    /\ \E a \in InsertAccountArgs, env \in Envs(1, F) :
        \E r \in {insert_account(World(env), a)} :
            Return(r, "insert_account", a, r.ret # NoId, max)

NextAccounts ==
    \/ accounts_call(Unreachable, MaxAccountCalls)
    \/ update_account_call(Unreachable, MaxAccountCalls)
    \/ insert_account_call(Unreachable, MaxAccountCalls)

SpecAccounts == Init /\ [][NextAccounts]_vars

---------------------------------------------------------------------------
(* SpecPrivileges: the privilege configuration is read, accounts and       *)
(* sessions are inserted and accounts are looked up by id and by session   *)
(* token; a request succeeds or the store is unreachable.                  *)

Email == "a@b"
Token == "token"

\* The <privileges> element: empty, one account with all privileges, or
\* one account element without an email.
PrivilegeConfigurations ==
    {<< >>} \cup
    {<<[email |-> e, orcid |-> None, may_administer |-> TRUE,
        may_impersonate |-> TRUE, may_review |-> TRUE,
        may_review_quotas |-> TRUE]>> : e \in {Email, None}}

read_privilege_configuration_call(max) ==
    /\ calls < max
    /\ \E xml_root \in PrivilegeConfigurations :
        \E r \in {read_privilege_configuration(World(<< >>), xml_root)} :
            Return(r, "read_privilege_configuration", xml_root, FALSE, max)

insert_session_call(F, max) ==
    /\ calls < max
    /\ \E account_id \in {NoId, AccountId}, env \in Envs(1, F) :
        \E r \in {insert_session(World(env), account_id, Token)} :
            Return(r, "insert_session", account_id, FALSE, max)

account_by_id_call(F, max) ==
    /\ calls < max
    /\ \E env \in Envs(1, F) :
        \E r \in {account_by_id(World(env), AccountId)} :
            Return(r, "account_by_id", AccountId, FALSE, max)

account_by_session_token_call(F, max) ==
    /\ calls < max
    /\ \E env \in Envs(1, F) :
        \E r \in {account_by_session_token(World(env), Token)} :
            Return(r, "account_by_session_token", Token, FALSE, max)

NextPrivileges ==
    \/ read_privilege_configuration_call(MaxPrivilegeCalls)
    \/ insert_account_call(Unreachable, MaxPrivilegeCalls)
    \/ insert_session_call(Unreachable, MaxPrivilegeCalls)
    \/ account_by_id_call(Unreachable, MaxPrivilegeCalls)
    \/ account_by_session_token_call(Unreachable, MaxPrivilegeCalls)

SpecPrivileges == Init /\ [][NextPrivileges]_vars

---------------------------------------------------------------------------
(* SpecRoles: the privilege configuration is read, an account and its      *)
(* session are inserted, and the session's token is asked for its roles; a *)
(* request succeeds or the store is unreachable.                           *)

may_administer_call(F, max) ==
    /\ calls < max
    /\ \E env \in Envs(1, F) :
        \E r \in {may_administer(World(env), Token)} :
            Return(r, "may_administer", Token, FALSE, max)

may_impersonate_call(F, max) ==
    /\ calls < max
    /\ \E env \in Envs(1, F) :
        \E r \in {may_impersonate(World(env), Token)} :
            Return(r, "may_impersonate", Token, FALSE, max)

is_logged_in_call(F, max) ==
    /\ calls < max
    /\ \E env \in Envs(1, F) :
        \E r \in {is_logged_in(World(env), Token)} :
            Return(r, "is_logged_in", Token, FALSE, max)

NextRoles ==
    \/ read_privilege_configuration_call(MaxRoleCalls)
    \/ insert_account_call(Unreachable, MaxRoleCalls)
    \/ insert_session_call(Unreachable, MaxRoleCalls)
    \/ may_administer_call(Unreachable, MaxRoleCalls)
    \/ may_impersonate_call(Unreachable, MaxRoleCalls)
    \/ is_logged_in_call(Unreachable, MaxRoleCalls)

SpecRoles == Init /\ [][NextRoles]_vars

---------------------------------------------------------------------------
(* SpecText: reads that embed free text of the caller in their query; a    *)
(* request succeeds or the store is unreachable.                           *)

NextText ==
    \/ datasets_text_call(Unreachable, MaxTextCalls)
    \/ authors_call(Unreachable, MaxTextCalls)
    \/ group_call(Unreachable, MaxTextCalls)

SpecText == Init /\ [][NextText]_vars

---------------------------------------------------------------------------
(* Properties.                                                             *)

\* The events of a trace that record the insertion of a child record.
ChildInserts(tr) ==
    {i \in 1..Len(tr) : tr[i].e = "insert" /\ ParentKind(tr[i].what) # ""}

HasRequest(tr, out) ==
    \E i \in 1..Len(tr) : tr[i].e = "request" /\ tr[i].info = out

IsHit == HasEvent(trace, "hit", "datasets")

\* C1: after an article write has returned success, no datasets() call
\* returns rows that were cached before that write: rows served from the
\* cache are at least as recent as the last successful article write.
C1_NoStaleDatasets ==
    (call.op = "datasets" /\ IsHit) => ret[1].val >= lastWriteVer

\* The request that carries the mutation of each write operation.
MutationOf(op) ==
    CASE op = "delete_file_for_article" -> "delete_files_for_article"
      [] OTHER -> op

InvalidatingWrites ==
    {"insert_article", "insert_file", "insert_collection_article",
     "update_article", "update_collection", "delete_article",
     "delete_article_version", "delete_file_for_article",
     "delete_article_for_collection"}

\* C2: a write operation invalidates cache prefixes only after the store
\* has executed its mutation, and only when the mutation succeeded: every
\* invalidation of the call comes after the call's successful mutation.
C2_InvalidateAfterSuccess ==
    call.op \in InvalidatingWrites =>
        \A i \in 1..Len(trace) :
            trace[i].e = "invalidate" =>
                \E j \in 1..(i - 1) :
                    /\ trace[j].e = "request"
                    /\ trace[j].what = MutationOf(call.op)
                    /\ trace[j].info = "ok"

\* C4: two datasets() calls whose arguments differ never share a cache
\* entry: a call answered from the cache has the arguments of the call
\* that put the entry.
C4_DistinctArgsDistinctEntries ==
    (call.op = "datasets" /\ IsHit) =>
        putBy[<<"datasets", make_key(datasets_query(call.args))>>] = call.args

\* C10: "connection down" is logged exactly once for each outage and the
\* flag is down exactly during an outage, that is from the first
\* connectivity failure until the next request that succeeds.
C10_DownLoggedOncePerOutage ==
    /\ sparql_is_up = ~outage
    /\ outage => downLogs = 1
    /\ ~outage => downLogs = 0

\* A connectivity failure during an outage that is already known: the
\* call's request failed and the call logged nothing about it.
C10_SecondFailureOfOutage ==
    /\ outage
    /\ HasRequest(trace, "URLError")
    /\ ~HasEvent(trace, "log", "down")

\* C5: for every kind the allocator's current value never decreases: a
\* counter that is set is at least the highest value it ever had, also
\* across restarts.
C5_CountersNeverDecrease ==
    \A k \in IdKeys : ids[k] # NoId => ids[k] >= highWater[k]

\* C7: every insert draws the id of the record it creates from the counter
\* of that record's own kind: in every allocation of a call the counter's
\* key is the kind of the record built with the id.
C7_OwnKindCounter ==
    \A i \in 1..Len(trace) :
        trace[i].e = "next_id" => trace[i].what = trace[i].info

Requests(tr) == {i \in 1..Len(tr) : tr[i].e = "request"}

\* A load_state call all of whose requests found the store unreachable.
LoadStateUnreachable ==
    /\ call.op = "load_state"
    /\ \A i \in 1..Len(call.args.env) : call.args.env[i] = "URLError"

\* C8: when the store is unreachable during load_state, the highest-id
\* query is attempted for every kind, UnknownDatabaseState is raised and
\* no counter is set to a number.
C8_UnreachableLoadState ==
    LoadStateUnreachable =>
        /\ Cardinality({i \in Requests(trace) : trace[i].what = "highest_id"})
               >= Cardinality(Kinds)
        /\ HasEvent(trace, "raise", "UnknownDatabaseState")
        /\ \A k \in Kinds : ids[k] = NoId

\* A load_state call all of whose requests the store answered, with no
\* row for any kind.
LoadStateNoRows ==
    /\ call.op = "load_state"
    /\ call.args.env = AllOk(Len(call.args.env))
    /\ ~call.args.emptyRow
    /\ \A k \in IdKeys : IdsOf(storeRecs, k) = {}

\* C9: when the store is reachable and the highest-id query returns no
\* rows for every kind, load_state raises nothing, logs the warning about
\* the empty database, and leaves the counters unset.
C9_EmptyStoreLoadState ==
    LoadStateNoRows =>
        /\ ret = None
        /\ HasEvent(trace, "log", "empty database")
        /\ \A k \in Kinds : ids[k] = NoId

\* C3: once a write has returned success, no later cached read under the
\* prefix it invalidates returns a value computed from the store's state
\* before the write: the rows r2 gets are from the write's version on.
C3_InvalidateWins ==
    (Returned("r2") /\ Truthy(threads["r2"].ret)) =>
        threads["r2"].ret[1].val >= threads["w"].ver

\* C6: two insert_article calls that run concurrently and were given no
\* ids have distinct article_version_ids.
C6_DistinctVersionIds ==
    \A s \in Inserters, t \in Inserters :
        (s # t /\ threads[s].vid # NoId /\ threads[t].vid # NoId) =>
            threads[s].vid # threads[t].vid

\* Every call has drawn its id and none has sent a request yet.
C6_AllAllocated ==
    \A t \in Inserters : threads[t].pc = "timeline"

\* The number of "connection restored" messages among the events tr.
UpLogs(tr) ==
    Cardinality({i \in 1..Len(tr) : tr[i].e = "log" /\ tr[i].what = "up"})

\* Every request among the events tr was answered.
AllAnswered(tr) == \A i \in Requests(tr) : tr[i].info = "ok"

SingleQueryReads == {"datasets", "dataset_versions"}

\* C12: __run_query returns the empty list and raises nothing whenever its
\* request fails, be it a connectivity failure, a malformed query or any
\* other error.
C12_FailureGivesEmptyList ==
    (call.op \in SingleQueryReads /\ \E o \in Failures : HasRequest(trace, o)) =>
        (ret = << >> /\ \A i \in 1..Len(trace) : trace[i].e # "raise")

\* A call whose request failed with an error of the third class.
C12_OtherErrorSwallowed ==
    /\ call.op = "dataset_versions"
    /\ HasRequest(trace, "Exception")
    /\ ret = << >>

PublicReads ==
    {"collections_article_count", "account_id_by_orcid", "derived_from",
     "repository_statistics"}

\* C13: no public read operation raises an exception to its caller when
\* its query fails or returns no rows.
C13_ReadsNeverRaise ==
    call.op \in PublicReads => \A i \in 1..Len(trace) : trace[i].e # "raise"

TextReads == {"datasets", "authors", "group"}

\* The query text the last call rendered.
TextOf(c) ==
    CASE c.op = "datasets" -> datasets_query(c.args)
      [] c.op = "authors"  -> authors_query(c.args)
      [] OTHER             -> group_query(c.args)

\* The free-text arguments of the last call.
FreeTextOf(c) ==
    CASE c.op = "datasets" -> {c.args.search_for, c.args.doi,
                               c.args.resource_doi, c.args.handle}
      [] c.op = "authors"  -> {c.args.search_for, c.args.full_name,
                               c.args.first_name, c.args.last_name}
      [] OTHER             -> {c.args.name, c.args.association}

\* C14: every free-text argument a read embeds in its query text has its
\* quote characters escaped first: a text with a quote never appears in
\* the query as the caller gave it.
C14_FreeTextEscaped ==
    call.op \in TextReads =>
        \A v \in FreeTextOf(call) :
            v = Quoted =>
                \A i \in 1..Len(TextOf(call)) : TextOf(call)[i] # Quoted

\* C15: at the moment a child record is inserted into the store, the
\* article or collection version it refers to is already in the store.
C15_ParentStoredBeforeChild ==
    call.op \in {"insert_article", "insert_collection"} =>
        \A i \in ChildInserts(trace) : trace[i].parent

\* The version id of the insert_article call that has returned: the
\* caller's, or the one the call drew from the "article" counter.
InsertedVersionId ==
    IF call.args.article_version_id # NoId THEN call.args.article_version_id
    ELSE ids["article"]

\* C16: every child record that insert_article inserts refers to the
\* article_version_id of the version being inserted, whatever its kind,
\* also when the caller's article_id differs from the version id.
C16_ChildrenReferenceVersion ==
    call.op = "insert_article" =>
        \A i \in ChildInserts(trace) : trace[i].rec.ref = InsertedVersionId

\* The categories that the category links of article version v name.
CategoryLinks(recs, v) ==
    {r.val : r \in {x \in recs : x.kind = "article_category" /\ x.ref = v}}

\* update_article has returned for version v with categories [3], and the
\* store has answered every request of the call.
UpdatedToThree(c, tr, v) ==
    /\ c.op = "update_article"
    /\ c.args.article_version_id = v
    /\ c.args.categories = <<3>>
    /\ AllAnswered(tr)

\* C17: an article version has the category links {1,2}; update_article is
\* called for it with categories [3] and the store answers every request:
\* when the call has returned, the version's category links are exactly {3}.
C17_CategoriesReplaced ==
    [][\A v \in {1, SuppliedVersionId} :
          (/\ calls' # calls
           /\ CategoryLinks(storeRecs, v) = {1, 2}
           /\ UpdatedToThree(call', trace', v))
          => CategoryLinks(storeRecs', v) = {3}]_vars

\* The call of C17 has returned: it removed the links to 1 and to 2, and
\* the version has the link to 3.
C17_Replaced ==
    \E v \in {1, SuppliedVersionId} :
        /\ UpdatedToThree(call, trace, v)
        /\ \E i \in 1..Len(trace) :
               /\ trace[i].e = "delete"
               /\ {r.val : r \in trace[i].gone} = {1, 2}
        /\ CategoryLinks(storeRecs, v) = {3}

\* The author links of article version v.
AuthorLinks(recs, v) ==
    {r \in recs : r.kind = "article_author" /\ r.ref = v}

\* The name of the author with the id author_id ("" when there is none).
AuthorName(recs, author_id) ==
    LET named == {r \in recs : r.kind = "author" /\ r.id = author_id}
    IN  IF named = {} THEN "" ELSE (CHOOSE r \in named : TRUE).val

\* Article version v is in the store with a file and with two author
\* links: the one inserted first names a1, the other a2.
InsertedWithTwoAuthors(recs, v) ==
    /\ \E r \in recs : r.kind = "article" /\ r.id = v
    /\ \E r \in recs : r.kind = "article_file" /\ r.ref = v
    /\ \E l1, l2 \in AuthorLinks(recs, v) :
           /\ AuthorLinks(recs, v) = {l1, l2}
           /\ l1.id < l2.id
           /\ AuthorName(recs, l1.val) = "a1"
           /\ AuthorName(recs, l2.val) = "a2"

\* C18: insert_article with the authors [a1, a2] and one file has
\* succeeded; authors() for that version, answered by the store, returns
\* exactly a1 followed by a2.
C18_AuthorsInInsertionOrder ==
    (/\ call.op = "authors"
     /\ call.args.item_uri # NoId
     /\ AllAnswered(trace)
     /\ InsertedWithTwoAuthors(storeRecs, call.args.item_uri))
    => ret = <<Row("author", "a1"), Row("author", "a2")>>

\* C20: after update_account or insert_account has returned success,
\* accounts() returns no rows that were cached before that write, whether
\* update_account was given categories or not: rows served from the cache
\* are at least as recent as the last successful account write.
C20_NoStaleAccounts ==
    (call.op = "accounts" /\ HasEvent(trace, "hit", "accounts"))
    => ret[1].val >= lastWriteVer

\* The account records that the look-up which has returned was for.
LookedUp ==
    IF call.op = "account_by_id"
    THEN {r \in storeRecs : r.kind = "account" /\ r.id = call.args}
    ELSE {r \in storeRecs :
             /\ r.kind = "account"
             /\ \E x \in storeRecs : /\ x.kind = "session" /\ x.ref = r.id
                                     /\ x.val = call.args}

Privileges == {"may_administer", "may_impersonate", "may_review",
               "may_review_quotas"}

\* ret has the privileges of the configured entry p.
HasPrivileges(p) ==
    /\ Privileges \subseteq DOMAIN ret
    /\ ret.may_administer = p.may_administer
    /\ ret.may_impersonate = p.may_impersonate
    /\ ret.may_review = p.may_review
    /\ ret.may_review_quotas = p.may_review_quotas

\* C19: account_by_session_token and account_by_id, when they find an
\* account whose email has an entry in the privilege configuration, return
\* it with may_administer, may_impersonate, may_review and
\* may_review_quotas set to the configured values.
C19_PrivilegesMerged ==
    (/\ call.op \in {"account_by_id", "account_by_session_token"}
     /\ AllAnswered(trace)
     /\ LookedUp # {})
    => \A r \in LookedUp :
           StrKey(r.val) \in DOMAIN privileges
           => HasPrivileges(privileges[StrKey(r.val)])

\* The requests of a trace, in the order they were sent.
IsRequest(ev) == ev.e = "request"
RequestsOf(tr) == SelectSeq(tr, IsRequest)

\* C22: insert_article and insert_collection send the insert of the
\* timeline first and the insert of the article or collection record last;
\* every insert of a child is sent between the two.
C22_TimelineChildrenParent ==
    call.op \in {"insert_article", "insert_collection"} =>
        /\ Len(RequestsOf(trace)) >= 2
        /\ RequestsOf(trace)[1].what = "insert_timeline"
        /\ RequestsOf(trace)[Len(RequestsOf(trace))].what = call.op
        /\ \A i \in 2..(Len(RequestsOf(trace)) - 1) :
               RequestsOf(trace)[i].what \notin {"insert_timeline", call.op}

\* An insert_article call with children of every kind, all of them and the
\* article stored.
C22_AllInserted ==
    /\ call.op = "insert_article"
    /\ ret # NoId
    /\ ~HasRequest(trace, "URLError")
    /\ {trace[i].what : i \in ChildInserts(trace)}
           = {"article_" \o c : c \in ChildKinds}

\* The names of the requests of a trace, in the order they were sent.
RequestNames(tr) == [i \in 1..Len(RequestsOf(tr)) |-> RequestsOf(tr)[i].what]

\* The outcomes of the requests of a trace that are named `name`.
IsInsertFile(ev) == ev.e = "request" /\ ev.what = "insert_file"
InsertFileOutcomes(tr) ==
    [i \in 1..Len(SelectSeq(tr, IsInsertFile)) |->
        SelectSeq(tr, IsInsertFile)[i].info]

RECURSIVE Times(_, _)
Times(n, s) == IF n = 0 THEN << >> ELSE s \o Times(n - 1, s)

\* The requests that insert the files: each file, the update of the article
\* for a file that is a link, and the link between the article and the
\* file.  `outs` tells, file by file, how the insert of the file ended; with
\* linkAlways, the link is expected whatever that outcome.
RECURSIVE FileRequests(_, _, _)
FileRequests(files, outs, linkAlways) ==
    IF files = << >> THEN << >>
    ELSE <<"insert_file">>
         \o (IF linkAlways \/ (outs # << >> /\ Head(outs) = "ok")
             THEN (IF Head(files).is_link_only THEN <<"update_article">>
                   ELSE << >>) \o <<"insert_article_file">>
             ELSE << >>)
         \o FileRequests(Tail(files),
                         IF outs = << >> THEN << >> ELSE Tail(outs), linkAlways)

\* The requests of an insert_article call with arguments a that attempts
\* every insert.
ArticleRequests(a, outs, linkAlways) ==
    <<"insert_timeline">>
    \o Times(Len(a.references), <<"insert_reference">>)
    \o Times(Len(a.tags), <<"insert_tag">>)
    \o Times(Len(a.funding_list), <<"insert_funding">>)
    \o Times(Len(a.categories), <<"insert_item_category">>)
    \o Times(Len(a.embargo_options), <<"insert_embargo">>)
    \o Times(Len(a.authors), <<"insert_author", "insert_author_link">>)
    \o FileRequests(a.files, outs, linkAlways)
    \o Times(Len(a.custom_fields), <<"insert_custom_field">>)
    \o Times(Len(a.private_links), <<"insert_private_link">>)
    \o <<"insert_article">>

\* An insert_article call one of whose inserts before the article's failed.
ChildInsertFailed ==
    /\ call.op = "insert_article"
    /\ \E i \in 1..(Len(RequestsOf(trace)) - 1) :
           RequestsOf(trace)[i].info # "ok"

\* The records the call inserted are in the store and the call deleted
\* nothing.
NothingRolledBack ==
    \A i \in 1..Len(trace) :
        /\ trace[i].e # "delete"
        /\ trace[i].e = "insert" => trace[i].rec \in storeRecs

\* C23 as stated: when an insert of a child (or of the timeline) fails in
\* insert_article, the records already inserted stay in the store, every
\* remaining insert of a child and the insert of the article are still
\* attempted, and nothing is deleted.
C23_AllStillAttempted ==
    ChildInsertFailed =>
        /\ NothingRolledBack
        /\ RequestNames(trace)
              = ArticleRequests(call.args, InsertFileOutcomes(trace), TRUE)

\* C23, amended: as stated, except that a file whose own insert failed is
\* not linked to the article: the update of the article for a linked file
\* and the insert of the file's link are sent only after the file was
\* inserted.
C23_StillAttemptedButFileLink ==
    ChildInsertFailed =>
        /\ NothingRolledBack
        /\ RequestNames(trace)
              = ArticleRequests(call.args, InsertFileOutcomes(trace), FALSE)

\* The timeline was not inserted, the children and the article were.
C23_TimelineFailed ==
    /\ ChildInsertFailed
    /\ RequestsOf(trace)[1].info # "ok"
    /\ ret # NoId
    /\ {trace[i].what : i \in ChildInserts(trace)}
           = {"article_" \o c : c \in ChildKinds}

\* The text has the form YYYY-MM-DDTHH:MM:SS.
IsTimestampForm(tv) ==
    /\ Len(tv) = 19
    /\ \A i \in 1..19 :
          CASE i \in {5, 8} -> tv[i] = "-"
            [] i = 11 -> tv[i] = "T"
            [] i \in {14, 17} -> tv[i] = ":"
            [] OTHER -> IsDigit(tv[i])

WithoutZ(tv) ==
    IF tv # << >> /\ tv[Len(tv)] = "Z" THEN SubSeq(tv, 1, Len(tv) - 1) ELSE tv

\* The text of the dateTime binding that was normalized.
NormalizedText == call.args.record[1].value

\* C21: normalizing a dateTime binding of the form YYYY-MM-DDTHH:MM:SS
\* gives the same digits with a space in place of the "T", and the same
\* text followed by "Z" gives the same result.
C21_SameDigits ==
    (call.op = "__normalize_binding" /\ IsTimestampForm(WithoutZ(NormalizedText)))
        => /\ ~ret.raised
           /\ ret.row[1].value
                = <<"str", [WithoutZ(NormalizedText) EXCEPT ![11] = " "]>>
           /\ normalize_binding(
                  <<DateTimeBinding("created", WithoutZ(NormalizedText) \o <<"Z">>)>>,
                  call.args.zero_fill)
                = normalize_binding(
                      <<DateTimeBinding("created", WithoutZ(NormalizedText))>>,
                      call.args.zero_fill)

\* The reads of SpecBindings: each is one invocation of __run_query.
TypedReads == {"datasets", "dataset_versions"}

\* The events of a trace that record typed rows sent by the store.
RowsSent(tr) == {i \in 1..Len(tr) : tr[i].e = "rows"}

\* C24: when the store sends a dateTime binding in another form than
\* YYYY-MM-DDTHH:MM:SS, only that field fails: the caller still gets every
\* row, with every field whose own coercion succeeds.
C24_OtherFieldsReturned ==
    call.op \in TypedReads =>
        \A i \in RowsSent(trace) :
            /\ Len(ret) = Len(trace[i].bindings)
            /\ \A r \in 1..Len(trace[i].bindings) :
                  \A f \in 1..Len(trace[i].bindings[r]) :
                      ~normalize_item(trace[i].bindings[r][f], FALSE).raised
                          => ret[r][f]
                               = normalize_item(trace[i].bindings[r][f], FALSE).item

\* The cache key that __run_query is given by the call (NoKey: none).
KeyOf(c) ==
    IF c.op = "datasets" THEN <<"datasets", make_key(datasets_query(c.args))>>
    ELSE NoKey

\* C25: an invocation of __run_query sends no request when the cache holds
\* a value for its key and exactly one request otherwise; a request that
\* failed is not sent again.
C25_AtMostOneRequest ==
    [][call'.op \in TypedReads =>
          Cardinality(Requests(trace'))
              = IF KeyOf(call') # NoKey /\ KeyOf(call') \in DOMAIN cache
                THEN 0 ELSE 1]_vars

\* A request failed, the store would have answered the next one, and no
\* other request was sent.
C25_FailedOnce ==
    /\ call.op \in TypedReads
    /\ \E i \in Requests(trace) : trace[i].info # "ok"
    /\ Cardinality(Requests(trace)) = 1

\* The request of the call failed, or the coercion of its rows did.
RequestFailed(tr) ==
    \/ \E i \in Requests(tr) : tr[i].info # "ok"
    \/ HasEvent(tr, "log", "failed")

\* C26: a request that fails, the coercion of its rows included, writes
\* nothing to the cache, and the identical read that follows it is sent to
\* the store: it is not answered with the empty list of the failed attempt.
C26_FailureCachesNothing ==
    [][/\ (call'.op \in TypedReads /\ RequestFailed(trace'))
             => /\ cache' = cache
                /\ ~\E i \in 1..Len(trace') : trace'[i].e = "put"
       /\ (call.op \in TypedReads /\ RequestFailed(trace)
           /\ call'.op = call.op /\ call'.args = call.args)
             => Cardinality(Requests(trace')) = 1]_vars

\* The store answered a cached read and the coercion of its rows failed:
\* the caller got the empty list and the cache has no entry for the read.
C26_CoercionFailed ==
    /\ call.op = "datasets"
    /\ HasRequest(trace, "ok")
    /\ HasEvent(trace, "log", "failed")
    /\ ret = << >>
    /\ KeyOf(call) \notin DOMAIN cache

\* C27: an update_article or update_collection call that has returned has
\* sent its mutation to the store (the request's outcome is the thread's
\* `out`), whatever the other thread does.
C27_EveryUpdateSent ==
    \A t \in Updaters : Returned(t) => threads[t].out # None

\* C28: of the calls that run concurrently, the two of one round, at most
\* one logs that the connection is down and at most one that it is up
\* again.  (Both requests of the round had the same outcome when both
\* logged the same change.)
C28_LoggedOnce ==
    \A s, t \in Queriers :
        (s # t /\ threads[s].logged # None) => threads[s].logged # threads[t].logged

\* Both calls of a round logged that the connection is up again.
C28_RestoredLoggedOnce ==
    ~ \A t \in Queriers : threads[t].logged = "up"

\* C29: a record that reaches the store in a call that took an id of the
\* record's kind from next_id has an id that no record of that kind in the
\* store has.  (No counter is ever set back in SpecSupplied, so a record
\* that has the id already was inserted with an id of its caller's.)
C29_AllocatedIdIsNew ==
    [][\A i \in 1..Len(trace') :
          (trace'[i].e = "insert" /\ HasEvent(trace', "next_id", trace'[i].what))
              => trace'[i].rec.id \notin IdsOf(storeRecs, trace'[i].what)]_vars

\* Two accounts in the store have the same id.
C29_NoSharedAccountId ==
    \A r1, r2 \in storeRecs :
        (r1.kind = "account" /\ r2.kind = "account" /\ r1.id = r2.id) => r1 = r2

\* The token of the call resolves to an account row, the first of the
\* result, and the privilege entry merged onto it grants the task.
Granted(task) ==
    /\ AllAnswered(trace)
    /\ LookedUp # {}
    /\ \E r \in LookedUp :
        /\ \A x \in LookedUp : r.id <= x.id
        /\ IntKey(r.id) \in DOMAIN privileges
        /\ privileges[IntKey(r.id)][task]

\* C30: may_administer and may_impersonate return True only for a token
\* that resolves to an account whose merged privilege entry grants the
\* task, and False otherwise: no account for the token, no entry for the
\* account, a request that failed.  is_logged_in returns False when its
\* request failed.
C30_RolesOnlyWhenGranted ==
    /\ call.op \in {"may_administer", "may_impersonate"} => (ret <=> Granted(call.op))
    /\ (call.op = "is_logged_in" /\ ~AllAnswered(trace)) => ~ret

\* may_administer has returned False for the token of an account that the
\* store has: the account has no privilege entry to be merged, although the
\* configuration names its email.
C30_DeniedWithoutEntry ==
    /\ call.op = "may_administer"
    /\ AllAnswered(trace)
    /\ LookedUp # {}
    /\ \E r \in LookedUp : StrKey(r.val) \in DOMAIN privileges
    /\ ret = FALSE

\* may_impersonate and is_logged_in have returned False because the store
\* was unreachable, for a token that the store knows.
C30_DeniedUnreachable ==
    /\ call.op \in {"may_impersonate", "is_logged_in"}
    /\ HasRequest(trace, "URLError")
    /\ LookedUp # {}
    /\ ret = FALSE

====
